---- MODULE Spec2Model ----
(***************************************************************************)
(* Circuit breaker of breaker_machines (core crate): the three-state       *)
(* machine, the sliding-window event store, the bulkhead gate and the      *)
(* call-admission pipeline of CircuitBreaker.                              *)
(*                                                                         *)
(* Time is the store's monotonic clock counted in whole ticks; it may     *)
(* advance between any two reads of it.                                    *)
(*                                                                         *)
(* A CircuitBreaker is used through &mut self, by one thread at a time;    *)
(* its store and its bulkhead are Arcs that other code holds too.  An API  *)
(* call is therefore a sequence of steps, one for each access to the       *)
(* bulkhead, the clock or the store, between which the clock advances and  *)
(* the other holders act; the machine, the hooks fired and the result are  *)
(* the call's own until it returns.                                        *)
(* Rates are rationals with denominator RateDen, which f64 division        *)
(* compares exactly for the small counts of the model.                     *)
(***************************************************************************)
EXTENDS Integers, Sequences, FiniteSets, TLC

VARIABLES cfg, now, events, machine, acquired, threads, last_op, ret, invoked, fired,
          overtaken, frame

vars == <<cfg, now, events, machine, acquired, threads, last_op, ret, invoked, fired,
          overtaken, frame>>

(* ------------------------------ bounds -------------------------------- *)
MaxTime == 3
MaxDuration == 1
FailureThreshold == 2
SuccessThreshold == 2
FailureWindow == 1
HalfOpenTimeout == 1
MaxEvents == 2
MaxMinimumCalls == 3
RateDen == 2
MaxLog == 4
BulkheadLimit == 2
TicksPerMs == 2
JitterDen == 4
MaxThreads == 3
LargeMaxEvents == 20

(* Option::None of failure_threshold / failure_rate_threshold / bulkhead *)
NoThreshold == 0
NoRate == -1
NoBulkhead == 0

CircuitName == "c"
Names == {"c", "other"}
(* the duration handed to the manual record operations, which is stored with *)
(* the event and read by nothing in the breaker; the duration of an operation *)
(* that call runs is the time it takes                                         *)
Durations == {0}
Threads == 1..MaxThreads

(* --------------------------- storage.rs ------------------------------- *)
Event(kind, t, d) == [kind |-> kind, timestamp |-> t, duration |-> d]

Max(a, b) == IF a >= b THEN a ELSE b

Drain(log, n) == IF n >= Len(log) THEN <<>> ELSE SubSeq(log, n + 1, Len(log))

(* a record_event that cleans up once the log is two past max_events *)
record_event_trimming_late(log, kind, d, t, max_events) ==
    LET pushed == Append(log, Event(kind, t, d))
        remove_count == Max(max_events \div 10, 1)
    IN  IF Len(pushed) > max_events + 1 THEN Drain(pushed, remove_count) ELSE pushed

(* record_event, first half: circuit_events.push(Event { .. }) *)
push_event(log, kind, d, t) == Append(log, Event(kind, t, d))

(* record_event, second half: the cleanup of a log that exceeds max_events *)
cleanup_events(log, max_events) ==
    LET remove_count == Max(max_events \div 10, 1)
    IN  IF Len(log) > max_events THEN Drain(log, remove_count) ELSE log

(* MemoryStorage::record_event on one circuit's Vec: push, then trim *)
record_event(log, kind, d, t, max_events) ==
    cleanup_events(push_event(log, kind, d, t), max_events)

(* a read lock that is granted while a writer holds the lock *)
read_granted_unguarded(ths) == TRUE

(* RwLock: self.events.write() is held from the start of record_event to its end *)
write_locked(ths) == \E th \in DOMAIN ths : ths[th].pc \in {"writing", "cleanup"}

(* RwLock: self.events.read() is held by count_events / event_log *)
read_locked(ths) == \E th \in DOMAIN ths : ths[th].pc = "reading"

(* RwLock::read is granted when no writer holds the lock *)
read_granted(ths) == ~write_locked(ths)

(* RwLock::write is granted when nobody holds the lock *)
write_granted(ths) == ~write_locked(ths) /\ ~read_locked(ths)

(* count_events without the cutoff: events older than the window still count *)
count_events_unwindowed(log, kind, window, t) ==
    Cardinality({i \in DOMAIN log : log[i].kind = kind})

(* MemoryStorage::count_events on one circuit's Vec *)
count_events(log, kind, window, t) ==
    LET cutoff == t - window
    IN  Cardinality({i \in DOMAIN log :
                        log[i].kind = kind /\ log[i].timestamp >= cutoff})

(* StorageBackend, dispatched on the backend (MemoryStorage / NullStorage) *)
record_success(c, ev, name, d, t) ==
    IF c.storage = "null" THEN ev
    ELSE [ev EXCEPT ![name] = record_event(ev[name], "Success", d, t, c.max_events)]

(* a record_failure that writes to the map whatever the backend *)
record_failure_storing(c, ev, name, d, t) ==
    [ev EXCEPT ![name] = record_event(ev[name], "Failure", d, t, c.max_events)]

record_failure(c, ev, name, d, t) ==
    IF c.storage = "null" THEN ev
    ELSE [ev EXCEPT ![name] = record_event(ev[name], "Failure", d, t, c.max_events)]

success_count(c, ev, name, window, t) ==
    IF c.storage = "null" THEN 0 ELSE count_events(ev[name], "Success", window, t)

failure_count(c, ev, name, window, t) ==
    IF c.storage = "null" THEN 0 ELSE count_events(ev[name], "Failure", window, t)

(* a clear that empties the log of every circuit of the store *)
clear_every_circuit(c, ev, name) ==
    IF c.storage = "null" THEN ev ELSE [n \in DOMAIN ev |-> <<>>]

(* StorageBackend::event_log(name, limit): the last limit events of the log *)
event_log(c, ev, name, limit) ==
    IF c.storage = "null" THEN <<>>
    ELSE LET log == ev[name]
             start == IF Len(log) > limit THEN Len(log) - limit ELSE 0
         IN  SubSeq(log, start + 1, Len(log))

clear(c, ev, name) ==
    IF c.storage = "null" THEN ev ELSE [ev EXCEPT ![name] = <<>>]

(* --------------------------- bulkhead.rs ------------------------------ *)
(* a thread using the shared BulkheadSemaphore: where it stands in try_acquire, *)
(* the value of acquired it last read, the guards it holds and what its last    *)
(* try_acquire returned                                                        *)
Thread(pc, current, guards, result) ==
    [pc |-> pc, current |-> current, guards |-> guards, result |-> result]

(* the capacity check that lets a thread in when acquired equals the limit *)
at_capacity_late(current, limit) == current > limit

(* try_acquire: if current >= self.limit { return None } *)
at_capacity(current, limit) == current >= limit

(* a release that leaves the counter as it is *)
release_leaking(acq) == acq

(* BulkheadSemaphore::release: acquired.fetch_sub(1) *)
release(acq) == acq - 1

(* a try_acquire that hands out a permit whatever the counter says *)
try_acquire_always(acq, limit) == [ok |-> TRUE, acquired |-> acq + 1]

(* try_acquire run to its end with no other thread in between: the permit it *)
(* returns, if any, and the counter after it                                 *)
try_acquire(acq, limit) ==
    IF at_capacity(acq, limit)
    THEN [ok |-> FALSE, acquired |-> acq]
    ELSE [ok |-> TRUE, acquired |-> acq + 1]

(* --------------------------- circuit.rs: guards ----------------------- *)
Closed == [state |-> "Closed", opened_at |-> 0, consecutive_successes |-> 0]
Open(t) == [state |-> "Open", opened_at |-> t, consecutive_successes |-> 0]
HalfOpen(n) == [state |-> "HalfOpen", opened_at |-> 0, consecutive_successes |-> n]

(* the rate comparison made strict: a ratio equal to the threshold does not trip *)
RateReached_strict(failures, total, r) ==
    IF total > 0 THEN failures * RateDen > r * total ELSE 0 > r

(* failures as f64 / total as f64 >= rate_threshold, rate = r / RateDen *)
RateReached(failures, total, r) ==
    IF total > 0 THEN failures * RateDen >= r * total ELSE 0 >= r

(* Circuit<Closed>::should_open and Circuit<HalfOpen>::should_open *)
should_open(c, ev, t) ==
    LET failures == failure_count(c, ev, CircuitName, c.failure_window, t)
    IN  IF c.failure_threshold # NoThreshold /\ failures >= c.failure_threshold
        THEN TRUE
        ELSE IF c.failure_rate # NoRate
             THEN LET successes == success_count(c, ev, CircuitName, c.failure_window, t)
                      total == failures + successes
                  IN  IF total >= c.minimum_calls
                      THEN RateReached(failures, total, c.failure_rate)
                      ELSE FALSE
             ELSE FALSE

(* should_open after its first read: the absolute threshold is not set or not
   reached and a rate threshold is set, so that success_count is read next *)
reads_successes(c, ev, t) ==
    LET failures == failure_count(c, ev, CircuitName, c.failure_window, t)
    IN  /\ ~(c.failure_threshold # NoThreshold /\ failures >= c.failure_threshold)
        /\ c.failure_rate # NoRate

IsFailure(e) == e.kind = "Failure"
IsSuccess(e) == e.kind = "Success"

(* the circuit's log as one evaluation of should_open reads it at its second
   read, at time t: the failures its first read counted (seen holds their
   number), all inside the window, and the successes of the log as it is now *)
AsRead(seen, ev, t) ==
    [ev EXCEPT ![CircuitName] =
        [i \in 1..seen[1] |-> Event("Failure", t, 0)] \o SelectSeq(ev[CircuitName], IsSuccess)]

(* should_close that needs one success more than success_threshold *)
should_close_late(c, m) == m.consecutive_successes > c.success_threshold

(* Circuit<HalfOpen>::should_close *)
should_close(c, m) == m.consecutive_successes >= c.success_threshold

(* chrono_machines::Policy::calculate_delay(1, jitter_factor) for a policy whose
   base and maximum delay are both base_delay_ms: the whole milliseconds that
   base_delay_ms * (1 - jitter + rand * jitter) can come to for rand in [0, 1],
   whichever way the product is brought to a u64.  c.jitter is the numerator of
   jitter_factor over JitterDen. *)
calculate_delay(base_delay_ms, jitter) ==
    ((base_delay_ms * (JitterDen - jitter)) \div JitterDen)..base_delay_ms

(* the timeouts Circuit<Open>::timeout_elapsed can compare the elapsed time with,
   in ticks.  With jitter a tick is 1/TicksPerMs of a millisecond:
   half_open_timeout_secs is cut to whole milliseconds for the policy and the
   sampled milliseconds are turned back into seconds. *)
JitterTimeouts(c) ==
    IF c.jitter > 0
    THEN LET base_delay_ms == c.half_open_timeout \div TicksPerMs
         IN  {timeout_ms * TicksPerMs : timeout_ms \in calculate_delay(base_delay_ms, c.jitter)}
    ELSE {c.half_open_timeout}

(* timeout_elapsed comparing the clock itself, not the time since opened_at *)
timeout_elapsed_unanchored(m, t, timeout_secs) == t >= timeout_secs

(* timeout_elapsed that wants the timeout exceeded, not merely reached *)
timeout_elapsed_strict(m, t, timeout_secs) == t - m.opened_at > timeout_secs

(* Circuit<Open>::timeout_elapsed, timeout_secs being the sampled timeout *)
timeout_elapsed(m, t, timeout_secs) ==
    LET elapsed == t - m.opened_at
    IN  elapsed >= timeout_secs

(* trip declared from every state, Open included *)
trip_from_any(c, m, ev, t) ==
    IF should_open(c, ev, t)
    THEN [ok |-> TRUE, m |-> [state |-> "Open", opened_at |-> 0, consecutive_successes |-> 0]]
    ELSE [ok |-> FALSE, m |-> m]

(* state_machine! events: the machine after handle(event), and whether it fired *)
trip(c, m, ev, t) ==
    IF m.state \in {"Closed", "HalfOpen"} /\ should_open(c, ev, t)
    THEN [ok |-> TRUE, m |-> Open(0)]
    ELSE [ok |-> FALSE, m |-> m]

(* attempt_reset entering HalfOpen with one success already counted *)
attempt_reset_counted(m, t, timeout_secs) ==
    IF m.state = "Open" /\ t - m.opened_at >= timeout_secs
    THEN [ok |-> TRUE, m |-> [state |-> "HalfOpen", opened_at |-> 0,
                              consecutive_successes |-> 1]]
    ELSE [ok |-> FALSE, m |-> m]

(* attempt_reset whose guard never passes *)
attempt_reset_stuck(m, t, timeout_secs) == [ok |-> FALSE, m |-> m]

attempt_reset(m, t, timeout_secs) ==
    IF m.state = "Open" /\ timeout_elapsed(m, t, timeout_secs)
    THEN [ok |-> TRUE, m |-> HalfOpen(0)]
    ELSE [ok |-> FALSE, m |-> m]

close(c, m) ==
    IF m.state = "HalfOpen" /\ should_close(c, m)
    THEN [ok |-> TRUE, m |-> Closed]
    ELSE [ok |-> FALSE, m |-> m]

(* --------------------------- callbacks.rs ----------------------------- *)
(* catch_unwind(|| cb(circuit)) on a callback that returns or panics: the panic
   is caught and handed back as an Err *)
catch_unwind(outcome) == IF outcome = "panic" THEN "Err" ELSE "Ok"

(* a trigger that calls the callback with nothing around it: it ends as the
   callback ends *)
trigger_unguarded(c, hook) == c.callbacks

(* Callbacks::trigger_open / trigger_close / trigger_half_open: the Result of
   catch_unwind is dropped and the trigger returns.  c.callbacks is what the
   installed callbacks do, "return" or "panic" *)
trigger(c, hook) ==
    LET dropped == catch_unwind(c.callbacks)
    IN  IF dropped \in {"Ok", "Err"} THEN "return" ELSE "panic"

(* --------------------------- circuit.rs: facade ----------------------- *)
Ret(tag, value) == [tag |-> tag, value |-> value]

Outcome(m, ev, t, r, inv, hooks) ==
    [machine |-> m, events |-> ev, now |-> t, ret |-> r, invoked |-> inv, fired |-> hooks]

(* what the API call hands back once its hooks have been triggered: its own
   result, or the unwinding of a hook's panic that a trigger let through *)
through_hooks(c, o) ==
    IF \E i \in DOMAIN o.fired : trigger(c, o.fired[i]) = "panic"
    THEN Ret("Panic", 0)
    ELSE o.ret

(* a mark_open that leaves opened_at at the 0.0 of OpenData::default *)
mark_open_unstamped(m, t) == m

(* CircuitBreaker::mark_open: stamp opened_at (trigger_open is the caller's hook entry) *)
mark_open(m, t) == IF m.state = "Open" THEN [m EXCEPT !.opened_at = t] ELSE m

(* a success arm that triggers on_close whether or not Close passed its guard *)
on_success_always_firing(c, m) ==
    IF m.state = "HalfOpen"
    THEN LET counted == [m EXCEPT !.consecutive_successes = @ + 1]
         IN  [m |-> close(c, counted).m, hooks |-> <<"on_close">>]
    ELSE [m |-> m, hooks |-> <<>>]

(* a success arm that takes an Open breaker for a probing one *)
on_success_leaving_open(c, m) ==
    IF m.state = "Open"
    THEN [m |-> HalfOpen(1), hooks |-> <<>>]
    ELSE IF m.state = "HalfOpen"
         THEN LET counted == [m EXCEPT !.consecutive_successes = @ + 1]
                  closed == close(c, counted)
              IN  [m |-> closed.m, hooks |-> IF closed.ok THEN <<"on_close">> ELSE <<>>]
         ELSE [m |-> m, hooks |-> <<>>]

(* Success arm shared by execute_call and record_success_and_maybe_close *)
on_success(c, m) ==
    IF m.state = "HalfOpen"
    THEN LET counted == [m EXCEPT !.consecutive_successes = @ + 1]
             closed == close(c, counted)
         IN  [m |-> closed.m, hooks |-> IF closed.ok THEN <<"on_close">> ELSE <<>>]
    ELSE [m |-> m, hooks |-> <<>>]

(* the failure arm without the reset of consecutive_successes *)
on_failure_keeping_progress(c, m, ev, t) ==
    LET result == trip(c, m, ev, t)
    IN  IF result.ok
        THEN [m |-> mark_open(result.m, t), hooks |-> <<"on_open">>]
        ELSE [m |-> m, hooks |-> <<>>]

(* Counted-failure arm shared by execute_call and record_failure_and_maybe_trip; *)
(* ev already holds the recorded failure                                         *)
on_failure(c, m, ev, t) ==
    LET result == trip(c, m, ev, t)
    IN  IF result.ok
        THEN [m |-> mark_open(result.m, t), hooks |-> <<"on_open">>]
        ELSE IF m.state = "HalfOpen"
             THEN [m |-> [m EXCEPT !.consecutive_successes = 0], hooks |-> <<>>]
             ELSE [m |-> m, hooks |-> <<>>]

(* should_trip that never consults the classifier *)
should_trip_always(c, v) == TRUE

(* execute_call's should_trip: the classifier's verdict v, true without one *)
should_trip(c, v) == IF c.classifier THEN v ELSE TRUE

(* an execute_call whose closing success starts the circuit's log afresh *)
execute_call_forgetting_on_close(c, m, ev, t, hooks, f, d, v) ==
    LET start == t
        end == start + d
        duration == end - start
    IN  CASE f = "ok" ->
               LET s == on_success(c, m)
                   kept == IF s.hooks = <<"on_close">> THEN clear(c, ev, CircuitName) ELSE ev
               IN  Outcome(s.m, record_success(c, kept, CircuitName, duration, end), end,
                           Ret("Ok", 0), {"operation"}, hooks \o s.hooks)
          [] f = "err" ->
               LET inv == IF c.classifier THEN {"operation", "classifier"} ELSE {"operation"}
               IN  IF should_trip(c, v)
                   THEN LET ev2 == record_failure(c, ev, CircuitName, duration, end)
                            s == on_failure(c, m, ev2, end)
                        IN  Outcome(s.m, ev2, end, Ret("Execution", 0), inv, hooks \o s.hooks)
                   ELSE Outcome(m, ev, end, Ret("Execution", 0), inv, hooks)
          [] OTHER ->
               Outcome(m, ev, end, Ret("Panic", 0), {"operation"}, hooks)

(* an execute_call that attempts Trip after a success as well *)
execute_call_tripping_on_success(c, m, ev, t, hooks, f, d, v) ==
    LET start == t
        end == start + d
        duration == end - start
    IN  CASE f = "ok" ->
               LET s == on_success(c, m)
                   ev2 == record_success(c, ev, CircuitName, duration, end)
                   tripped == on_failure(c, s.m, ev2, end)
               IN  Outcome(tripped.m, ev2, end, Ret("Ok", 0), {"operation"},
                           hooks \o s.hooks \o tripped.hooks)
          [] f = "err" ->
               LET inv == IF c.classifier THEN {"operation", "classifier"} ELSE {"operation"}
               IN  IF should_trip(c, v)
                   THEN LET ev2 == record_failure(c, ev, CircuitName, duration, end)
                            s == on_failure(c, m, ev2, end)
                        IN  Outcome(s.m, ev2, end, Ret("Execution", 0), inv, hooks \o s.hooks)
                   ELSE Outcome(m, ev, end, Ret("Execution", 0), inv, hooks)
          [] OTHER ->
               Outcome(m, ev, end, Ret("Panic", 0), {"operation"}, hooks)

(* CircuitBreaker::execute_call: f is what the operation does ("ok", "err",  *)
(* "panic"), d the ticks it takes, v the classifier's verdict on its error   *)
execute_call(c, m, ev, t, hooks, f, d, v) ==
    LET start == t
        end == start + d
        duration == end - start
    IN  CASE f = "ok" ->
               LET s == on_success(c, m)
               IN  Outcome(s.m, record_success(c, ev, CircuitName, duration, end), end,
                           Ret("Ok", 0), {"operation"}, hooks \o s.hooks)
          [] f = "err" ->
               LET inv == IF c.classifier THEN {"operation", "classifier"} ELSE {"operation"}
               IN  IF should_trip(c, v)
                   THEN LET ev2 == record_failure(c, ev, CircuitName, duration, end)
                            s == on_failure(c, m, ev2, end)
                        IN  Outcome(s.m, ev2, end, Ret("Execution", 0), inv, hooks \o s.hooks)
                   ELSE Outcome(m, ev, end, Ret("Execution", 0), inv, hooks)
          [] OTHER ->
               (* the operation panics: the unwind leaves execute_call and call *)
               Outcome(m, ev, end, Ret("Panic", 0), {"operation"}, hooks)

(* the FallbackContext call builds for the fallback *)
FallbackContext(circuit_name, opened_at, state) ==
    [circuit_name |-> circuit_name, opened_at |-> opened_at, state |-> state]

(* the fallback closure: it succeeds (fb = "ok") or fails, and hands back the
   opened_at of the context it was given as its value or as its error *)
fallback(fb, ctx) == [is_ok |-> fb = "ok", value |-> ctx.opened_at]

(* a wrapping that turns the fallback's error into a success *)
map_err_swallowing(result) == Ret("Ok", result.value)

(* fallback(&ctx).map_err(CircuitError::Execution) *)
map_err(result) ==
    IF result.is_ok THEN Ret("Ok", result.value) ELSE Ret("Execution", result.value)

(* what call leaves behind when it returns or unwinds: the outcome and the *)
(* bulkhead counter once the guard, if one was taken, is dropped           *)
Exit(o, acq) ==
    [machine |-> o.machine, events |-> o.events, now |-> o.now, ret |-> o.ret,
     invoked |-> o.invoked, fired |-> o.fired, acquired |-> acq]

(* a call that turns to the fallback when the bulkhead is full *)
call_falling_back_when_full(c, m, ev, t, acq, f, d, v, fb, timeout_secs) ==
    LET guard == IF c.max_concurrency # NoBulkhead
                 THEN try_acquire(acq, c.max_concurrency)
                 ELSE [ok |-> FALSE, acquired |-> acq]
        dropped == IF guard.ok THEN release(guard.acquired) ELSE guard.acquired
    IN  IF c.max_concurrency # NoBulkhead /\ ~guard.ok
        THEN IF fb # "none"
             THEN Exit(Outcome(m, ev, t,
                               map_err(fallback(fb, FallbackContext(CircuitName, m.opened_at,
                                                                    m.state))),
                               {"fallback"}, <<>>), guard.acquired)
             ELSE Exit(Outcome(m, ev, t, Ret("BulkheadFull", c.max_concurrency), {}, <<>>),
                       guard.acquired)
        ELSE LET m1 == IF m.state = "Open" THEN attempt_reset(m, t, timeout_secs).m ELSE m
                 hooks == IF m.state = "Open" /\ m1.state = "HalfOpen"
                          THEN <<"on_half_open">> ELSE <<>>
                 opened_at == m1.opened_at
             IN  CASE m1.state = "Open" ->
                        IF fb # "none"
                        THEN LET ctx == FallbackContext(CircuitName, opened_at, "Open")
                             IN  Exit(Outcome(m1, ev, t, map_err(fallback(fb, ctx)),
                                              {"fallback"}, hooks), dropped)
                        ELSE Exit(Outcome(m1, ev, t, Ret("Open", opened_at), {}, hooks),
                                  dropped)
                   [] m1.state = "HalfOpen"
                        /\ m1.consecutive_successes >= c.success_threshold ->
                        Exit(Outcome(m1, ev, t, Ret("HalfOpenLimitReached", 0), {}, hooks),
                             dropped)
                   [] OTHER -> Exit(execute_call(c, m1, ev, t, hooks, f, d, v), dropped)

(* CircuitBreaker::call: fb is the fallback ("none", "ok", "err"), timeout_secs *)
(* the timeout timeout_elapsed samples, acq the bulkhead's acquired count.      *)
(* _guard lives until call is left, by return or by unwinding.  The fallback    *)
(* hands back, as the value of its result, the opened_at of the FallbackContext *)
(* it was given                                                                 *)
call(c, m, ev, t, acq, f, d, v, fb, timeout_secs) ==
    LET guard == IF c.max_concurrency # NoBulkhead
                 THEN try_acquire(acq, c.max_concurrency)
                 ELSE [ok |-> FALSE, acquired |-> acq]
        dropped == IF guard.ok THEN release(guard.acquired) ELSE guard.acquired
    IN  IF c.max_concurrency # NoBulkhead /\ ~guard.ok
        THEN Exit(Outcome(m, ev, t, Ret("BulkheadFull", c.max_concurrency), {}, <<>>),
                  guard.acquired)
        ELSE LET m1 == IF m.state = "Open" THEN attempt_reset(m, t, timeout_secs).m ELSE m
                 hooks == IF m.state = "Open" /\ m1.state = "HalfOpen"
                          THEN <<"on_half_open">> ELSE <<>>
                 opened_at == m1.opened_at
             IN  CASE m1.state = "Open" ->
                        IF fb # "none"
                        THEN LET ctx == FallbackContext(CircuitName, opened_at, "Open")
                             IN  Exit(Outcome(m1, ev, t, map_err(fallback(fb, ctx)),
                                              {"fallback"}, hooks), dropped)
                        ELSE Exit(Outcome(m1, ev, t, Ret("Open", opened_at), {}, hooks),
                                  dropped)
                   [] m1.state = "HalfOpen"
                        /\ m1.consecutive_successes >= c.success_threshold ->
                        Exit(Outcome(m1, ev, t, Ret("HalfOpenLimitReached", 0), {}, hooks),
                             dropped)
                   [] OTHER -> Exit(execute_call(c, m1, ev, t, hooks, f, d, v), dropped)

(* ------------------------------ state --------------------------------- *)
Config(ft, fr, mc, st, cl) ==
    [failure_threshold |-> ft, failure_rate |-> fr, minimum_calls |-> mc,
     failure_window |-> FailureWindow, half_open_timeout |-> HalfOpenTimeout,
     success_threshold |-> st, jitter |-> 0, classifier |-> cl,
     max_concurrency |-> NoBulkhead, storage |-> "memory", max_events |-> MaxEvents,
     callbacks |-> "return"]

(* breakers tripping on the absolute threshold only: every pair of a smallest *)
(* and a larger threshold without a classifier, and one with a classifier     *)
CountConfigs ==
    {Config(ft, NoRate, 0, st, FALSE) :
        ft \in {1, FailureThreshold}, st \in {1, SuccessThreshold}}
    \cup {Config(FailureThreshold, NoRate, 0, SuccessThreshold, TRUE)}

(* breakers with a failure-rate threshold: a rate of 0 or 1/RateDen with no     *)
(* minimum, rates of 1/RateDen and 1 with a minimum of one call, and a rate of *)
(* 1/RateDen with a minimum above what the store holds, alone and next to the  *)
(* absolute threshold                                                          *)
RateConfigs ==
    {Config(NoThreshold, fr, 0, 1, FALSE) : fr \in {0, 1}}
    \cup {Config(NoThreshold, fr, 1, 1, FALSE) : fr \in {1, RateDen}}
    \cup {Config(ft, 1, MaxMinimumCalls, 1, FALSE) : ft \in {NoThreshold, FailureThreshold}}
    \cup {Config(FailureThreshold, 1, 1, 1, FALSE)}

(* the breaker of test_half_open_failure_resets_consecutive_successes, a tick *)
(* being a millisecond: failure_threshold 2, half_open_timeout 0.001 s,       *)
(* success_threshold 2, the rest Config::default and MemoryStorage::new       *)
Seed3Config ==
    [failure_threshold |-> 2, failure_rate |-> NoRate, minimum_calls |-> 20,
     failure_window |-> 60000, half_open_timeout |-> 1,
     success_threshold |-> 2, jitter |-> 0, classifier |-> FALSE,
     max_concurrency |-> NoBulkhead, storage |-> "memory", max_events |-> 1000,
     callbacks |-> "return"]

(* breakers with a bulkhead of one permit and of BulkheadLimit permits *)
BulkheadConfigs ==
    {[Config(FailureThreshold, NoRate, 0, SuccessThreshold, FALSE)
        EXCEPT !.max_concurrency = limit] : limit \in {1, BulkheadLimit}}

(* breakers opening on the first failure whose half_open_timeout is a whole
   millisecond and a millisecond and a tick, with a jitter_factor of 1/JitterDen
   and of 1 *)
JitterConfigs ==
    {[Config(1, NoRate, 0, SuccessThreshold, FALSE)
        EXCEPT !.half_open_timeout = base, !.jitter = j] :
        base \in {TicksPerMs, TicksPerMs + 1}, j \in {1, JitterDen}}

(* breakers tripping on the absolute threshold, without a classifier *)
RecoveryConfigs ==
    {Config(ft, NoRate, 0, st, FALSE) :
        ft \in {1, FailureThreshold}, st \in {1, SuccessThreshold}}

Op(op, f, v, fb) ==
    [op |-> op, f |-> f, verdict |-> v, fallback |-> fb, name |-> CircuitName, window |-> 0]

(* a query of the store: the circuit name and the window it was asked with *)
Query(op, name, window) ==
    [Op(op, "-", TRUE, "none") EXCEPT !.name = name, !.window = window]

(* what an API call in progress has made of the breaker so far: the machine,
   the result it will return, what it invoked and the hooks it triggered *)
Pending(m, r, inv, hooks) == [m |-> m, ret |-> r, invoked |-> inv, fired |-> hooks]

(* the API call the breaker's thread is in: where it stands ("admitted": call
   holds its permit and has not looked at the state yet; "starting": on_half_open
   has returned and execute_call is about to read the clock for start;
   "operation": the wrapped operation runs; "recording": it has returned, its
   duration is taken and its event is about to be recorded; "counting" /
   "rating": should_open is about to read failure_count / success_count;
   "marking": Trip has fired and mark_open is about to read the clock;
   "leaving": the result is there and _guard is about to be dropped), the call
   and its inputs, what it has done so far, execute_call's start and duration
   while it needs them, the number of failures should_open's first read counted,
   and whether _guard holds a permit *)
Frame(pc, op, p, start, duration, seen, guard) ==
    [pc |-> pc, op |-> op, p |-> p, start |-> start, duration |-> duration,
     seen |-> seen, guard |-> guard]

(* the breaker's thread between two API calls *)
NoFrame ==
    Frame("idle", Op("new", "-", TRUE, "none"), Pending(Closed, Ret("Unit", 0), {}, <<>>),
          0, 0, <<>>, FALSE)

(* the breaker as the builder hands it over: the store's clock, started when *)
(* the store was created, already reads more than zero                       *)
InitWith(configs) ==
    /\ cfg \in configs
    /\ now = 1
    /\ events = [n \in Names |-> <<>>]
    /\ machine = Closed
    /\ acquired = 0
    /\ threads = [th \in Threads |-> Thread("idle", 0, 0, "-")]
    /\ overtaken = [th \in Threads |-> FALSE]
    /\ frame = NoFrame
    /\ last_op = Op("new", "-", TRUE, "none")
    /\ ret = Ret("Unit", 0)
    /\ invoked = {}
    /\ fired = <<>>

Init == InitWith(CountConfigs)

(* verdicts a configured classifier can give; without one every error counts *)
Verdicts(c) == IF c.classifier THEN BOOLEAN ELSE {TRUE}

(* an API call, or a call on the store by another holder of it, made in one step *)
Apply(o, op) ==
    /\ machine' = o.machine
    /\ events' = o.events
    /\ now' = o.now
    /\ ret' = through_hooks(cfg, o)
    /\ invoked' = o.invoked
    /\ fired' = o.fired
    /\ last_op' = op
    /\ UNCHANGED <<cfg, acquired, threads, overtaken, frame>>

(* a step of an API call that leaves the breaker's thread inside the call, at    *)
(* fr, with the store at ev and the bulkhead's counter at acq; the machine is    *)
(* kept in the frame, out of the reach of everybody else, until the call returns *)
Inside(fr, ev, acq) ==
    /\ frame' = fr
    /\ events' = ev
    /\ acquired' = acq
    /\ last_op' = Op("inside", "-", TRUE, "none")
    /\ ret' = Ret("Unit", 0)
    /\ invoked' = {}
    /\ fired' = <<>>
    /\ UNCHANGED <<cfg, now, machine, threads, overtaken>>

(* the step on which an API call returns or unwinds: what it made of the breaker *)
(* is there for the next call, with its result                                   *)
Return(op, p, ev, acq) ==
    /\ frame' = NoFrame
    /\ machine' = p.m
    /\ events' = ev
    /\ acquired' = acq
    /\ ret' = through_hooks(cfg, Outcome(p.m, ev, now, p.ret, p.invoked, p.fired))
    /\ invoked' = p.invoked
    /\ fired' = p.fired
    /\ last_op' = op
    /\ UNCHANGED <<cfg, now, threads, overtaken>>

(* the end of the work of the API call fr, p being what it made of the breaker: *)
(* call, when _guard holds a permit, still has to drop it; every other way out  *)
(* returns at once                                                              *)
Leave(fr, p, ev) ==
    IF fr.guard
    THEN Inside([fr EXCEPT !.pc = "leaving", !.p = p, !.start = 0, !.duration = 0,
                           !.seen = <<>>],
                ev, acquired)
    ELSE Return(fr.op, p, ev, acquired)

(* the store's clock advances, at any time; an operation takes MaxDuration *)
(* ticks at most                                                           *)
Tick ==
    /\ now < MaxTime
    /\ frame.pc = "operation" => now - frame.start < MaxDuration
    /\ Apply(Outcome(machine, events, now + 1, Ret("Unit", 0), {}, <<>>),
             Op("tick", "-", TRUE, "none"))

(* call past the bulkhead, in the API call fr: the Open breaker's timeout is  *)
(* checked against the clock, with timeout_secs the timeout sampled, and the  *)
(* state is matched.  entered is what call leaves when the operation unwinds  *)
(* as it starts: the machine and the hooks at the start of execute_call, or   *)
(* the result of a call that does not get there.  A call that went through    *)
(* on_half_open reads the clock for start on a later step, any other call     *)
(* that runs the operation reads it here.                                     *)
CallAdmit(fr, timeout_secs) ==
    LET past == [cfg EXCEPT !.max_concurrency = NoBulkhead]
        entered == call(past, fr.p.m, events, now, acquired, "panic", 0, TRUE,
                        fr.op.fallback, timeout_secs)
        p == Pending(entered.machine, entered.ret, entered.invoked, entered.fired)
        begun == Pending(entered.machine, Ret("Unit", 0), {}, entered.fired)
    IN  IF "operation" \in entered.invoked
        THEN IF entered.fired # <<>>
             THEN Inside([fr EXCEPT !.pc = "starting", !.p = begun], events, acquired)
             ELSE Inside([fr EXCEPT !.pc = "operation", !.p = begun, !.start = now],
                         events, acquired)
        ELSE Leave([fr EXCEPT !.op.f = "-"], p, events)

(* the fallbacks a call on the machine m is made with: a fallback is looked at *)
(* in the Open arm only, so that elsewhere it only counts as supplied or not   *)
Fallbacks(m) == IF m.state = "Open" THEN {"none", "ok", "err"} ELSE {"none", "ok"}

(* CircuitBreaker::call, first step: with a bulkhead, try_acquire, which takes   *)
(* the permit or makes call return BulkheadFull; without one, what call does     *)
(* first past the bulkhead.  f is what the operation may do when it runs ("?":   *)
(* end in any way), fb the fallback.                                             *)
CallEnter(f, fb) ==
    LET guard == try_acquire(acquired, cfg.max_concurrency)
        refused == call(cfg, machine, events, now, acquired, "panic", 0, TRUE, fb,
                        cfg.half_open_timeout)
        fr == Frame("admitted", Op("call", f, TRUE, fb),
                    Pending(machine, Ret("Unit", 0), {}, <<>>), 0, 0, <<>>, FALSE)
    IN  IF cfg.max_concurrency = NoBulkhead
        THEN \E timeout_secs \in JitterTimeouts(cfg) : CallAdmit(fr, timeout_secs)
        ELSE IF guard.ok
             THEN Inside([fr EXCEPT !.guard = TRUE], events, guard.acquired)
             ELSE Return(Op("call", "-", TRUE, fb),
                         Pending(refused.machine, refused.ret, refused.invoked,
                                 refused.fired),
                         events, refused.acquired)

(* CircuitBreaker::call with every fallback, the operation free to end in any *)
(* way                                                                        *)
Call ==
    /\ frame.pc = "idle"
    /\ \E fb \in Fallbacks(machine) : CallEnter("?", fb)

(* call, with its permit, goes on to the timeout check and the match on the state *)
CallAdmitted == \E timeout_secs \in JitterTimeouts(cfg) : CallAdmit(frame, timeout_secs)

(* execute_call: let start = self.context.storage.monotonic_time() *)
CallStart == Inside([frame EXCEPT !.pc = "operation", !.start = now], events, acquired)

(* the ways the operation of the call in progress can end *)
Results(f) == IF f = "?" THEN {"ok", "err", "panic"} ELSE {f}

(* execute_call from the return of the operation, f being how it ended and v   *)
(* the classifier's verdict on its error: the clock is read for the duration;  *)
(* an uncounted error or a panic is handled in this step, a success or a       *)
(* counted failure is still to be recorded                                     *)
CallOperation(f, v) ==
    LET fr == [frame EXCEPT !.op.f = f, !.op.verdict = v, !.start = 0]
        duration == now - frame.start
        o == execute_call(cfg, frame.p.m, events, frame.start, frame.p.fired, f,
                          duration, v)
    IN  IF f = "ok" \/ (f = "err" /\ should_trip(cfg, v))
        THEN Inside([fr EXCEPT !.pc = "recording", !.duration = duration], events, acquired)
        ELSE Leave(fr, Pending(o.machine, o.ret, o.invoked, o.fired), o.events)

(* execute_call, record_success / record_failure of the duration taken, stamped *)
(* with the clock as the store reads it now: a success is handled in this step, *)
(* the Trip of a failure is still to come                                       *)
CallRecord ==
    LET fr == [frame EXCEPT !.duration = 0]
        o == execute_call(cfg, frame.p.m, events, now - frame.duration, frame.p.fired,
                          frame.op.f, frame.duration, frame.op.verdict)
    IN  IF frame.op.f = "err"
        THEN Inside([fr EXCEPT !.pc = "counting",
                               !.p = Pending(frame.p.m, o.ret, o.invoked, frame.p.fired)],
                    o.events, acquired)
        ELSE Leave(fr, Pending(o.machine, o.ret, o.invoked, o.fired), o.events)

(* handle(Trip) with the store as should_open read it, read, and what follows  *)
(* in the API call fr when the guard fails: the reset of consecutive_successes *)
(* in call and record_failure_and_maybe_trip, the false of check_and_trip.     *)
(* When Trip fires the machine is Open with the opened_at of OpenData::default *)
(* and mark_open is still to come; check_and_trip will return true.  The store *)
(* is left at ev.                                                              *)
Tripped(fr, read, ev) ==
    LET result == trip(cfg, fr.p.m, read, now)
        s == on_failure(cfg, fr.p.m, read, now)
    IN  IF result.ok
        THEN Inside([fr EXCEPT !.pc = "marking", !.seen = <<>>,
                               !.p = Pending(result.m,
                                             IF fr.op.op = "check_and_trip"
                                             THEN Ret("True", 0) ELSE fr.p.ret,
                                             fr.p.invoked, fr.p.fired)],
                    ev, acquired)
        ELSE IF fr.op.op \in {"check_and_trip", "ruby_record_failure"}
             THEN Leave(fr, fr.p, ev)
             ELSE Leave(fr, Pending(s.m, fr.p.ret, fr.p.invoked, fr.p.fired \o s.hooks), ev)

(* handle(Trip) on a breaker that is not Open, first read of should_open:       *)
(* failure_count.  The guard is settled by it when the absolute threshold is    *)
(* reached or no rate threshold is set; otherwise the count is kept and         *)
(* success_count is read on a later step                                        *)
TripFailures(fr) ==
    LET failures == failure_count(cfg, events, CircuitName, cfg.failure_window, now)
    IN  IF reads_successes(cfg, events, now)
        THEN Inside([fr EXCEPT !.pc = "rating", !.seen = <<failures>>], events, acquired)
        ELSE Tripped(fr, events, events)

(* second read of should_open: success_count, then the rate rule on the two counts *)
TripSuccesses == Tripped(frame, AsRead(frame.seen, events, now), events)

(* mark_open: opened_at is stamped with the clock as it reads now, on_open is *)
(* triggered                                                                  *)
TripMark ==
    Leave(frame,
          Pending(mark_open(frame.p.m, now), frame.p.ret, frame.p.invoked,
                  frame.p.fired \o <<"on_open">>),
          events)

(* call returns or unwinds: _guard is dropped *)
CallLeave == Return(frame.op, frame.p, events, release(acquired))

(* the breaker's thread takes the next step of the API call it is in *)
Proceed ==
    CASE frame.pc = "admitted" -> CallAdmitted
      [] frame.pc = "starting" -> CallStart
      [] frame.pc = "operation" ->
            \E f \in Results(frame.op.f) :
                \E v \in IF f = "err" THEN Verdicts(cfg) ELSE {TRUE} :
                    CallOperation(f, v)
      [] frame.pc = "recording" -> CallRecord
      [] frame.pc = "counting" -> TripFailures(frame)
      [] frame.pc = "rating" -> TripSuccesses
      [] frame.pc = "marking" -> TripMark
      [] frame.pc = "leaving" -> CallLeave
      [] OTHER -> FALSE

(* a record_success that also does the HalfOpen bookkeeping of a successful call *)
RecordSuccess_counting ==
    /\ frame.pc = "idle"
    /\ \E d \in Durations :
        LET s == on_success(cfg, machine)
        IN  Apply(Outcome(s.m, record_success(cfg, events, CircuitName, d, now), now,
                          Ret("Unit", 0), {}, s.hooks),
                  Op("record_success", "-", TRUE, "none"))

(* CircuitBreaker::record_success(duration) *)
RecordSuccess ==
    /\ frame.pc = "idle"
    /\ \E d \in Durations :
        Apply(Outcome(machine, record_success(cfg, events, CircuitName, d, now), now,
                      Ret("Unit", 0), {}, <<>>),
              Op("record_success", "-", TRUE, "none"))

(* CircuitBreaker::record_failure(duration) *)
RecordFailure ==
    /\ frame.pc = "idle"
    /\ \E d \in Durations :
        Apply(Outcome(machine, record_failure(cfg, events, CircuitName, d, now), now,
                      Ret("Unit", 0), {}, <<>>),
              Op("record_failure", "-", TRUE, "none"))

(* CircuitBreaker::record_success_and_maybe_close(duration) *)
RecordSuccessAndMaybeClose ==
    /\ frame.pc = "idle"
    /\ \E d \in Durations :
        LET s == on_success(cfg, machine)
        IN  Apply(Outcome(s.m, record_success(cfg, events, CircuitName, d, now), now,
                          Ret("Unit", 0), {}, s.hooks),
                  Op("record_success_and_maybe_close", "-", TRUE, "none"))

(* CircuitBreaker::record_failure_and_maybe_trip(duration): the failure is   *)
(* recorded; handle(Trip) comes on the steps that follow, but for an Open     *)
(* breaker, whose Trip fails without a look at the store                      *)
RecordFailureAndMaybeTrip ==
    /\ frame.pc = "idle"
    /\ \E d \in Durations :
        LET op == Op("record_failure_and_maybe_trip", "-", TRUE, "none")
            ev2 == record_failure(cfg, events, CircuitName, d, now)
            fr == Frame("counting", op, Pending(machine, Ret("Unit", 0), {}, <<>>),
                        0, 0, <<>>, FALSE)
        IN  IF machine.state = "Open"
            THEN Tripped(fr, ev2, ev2)
            ELSE Inside(fr, ev2, acquired)

(* CircuitBreaker::check_and_trip: handle(Trip) at once; on a breaker that is *)
(* not Open this step is should_open's first read                             *)
CheckAndTrip ==
    /\ frame.pc = "idle"
    /\ LET fr == Frame("counting", Op("check_and_trip", "-", TRUE, "none"),
                       Pending(machine, Ret("False", 0), {}, <<>>), 0, 0, <<>>, FALSE)
       IN  IF machine.state = "Open"
           THEN Tripped(fr, events, events)
           ELSE TripFailures(fr)

(* CircuitBreaker::is_open, is_closed and state_name: reads of the machine *)
is_open(m) == m.state = "Open"

is_closed(m) == m.state = "Closed"

state_name(m) == m.state

IsOpen ==
    /\ frame.pc = "idle"
    /\ Apply(Outcome(machine, events, now,
                     Ret(IF is_open(machine) THEN "True" ELSE "False", 0), {}, <<>>),
             Op("is_open", "-", TRUE, "none"))

IsClosed ==
    /\ frame.pc = "idle"
    /\ Apply(Outcome(machine, events, now,
                     Ret(IF is_closed(machine) THEN "True" ELSE "False", 0), {}, <<>>),
             Op("is_closed", "-", TRUE, "none"))

StateName ==
    /\ frame.pc = "idle"
    /\ Apply(Outcome(machine, events, now, Ret("Name", state_name(machine)), {}, <<>>),
             Op("state_name", "-", TRUE, "none"))

(* str::to_lowercase on the names of the three states *)
to_lowercase(name) ==
    CASE name = "Closed" -> "closed"
      [] name = "Open" -> "open"
      [] name = "HalfOpen" -> "halfopen"
      [] OTHER -> name

(* RubyCircuit::state_name: the name of the state in lower case *)
RubyStateName ==
    /\ frame.pc = "idle"
    /\ Apply(Outcome(machine, events, now,
                     Ret("Name", to_lowercase(state_name(machine))), {}, <<>>),
             Op("ruby_state_name", "-", TRUE, "none"))

(* RubyCircuit::record_failure: record_failure(duration), then check_and_trip() *)
RubyRecordFailure ==
    /\ frame.pc = "idle"
    /\ \E d \in Durations :
        LET ev2 == record_failure(cfg, events, CircuitName, d, now)
            fr == Frame("counting", Op("ruby_record_failure", "-", TRUE, "none"),
                        Pending(machine, Ret("Unit", 0), {}, <<>>), 0, 0, <<>>, FALSE)
        IN  IF machine.state = "Open"
            THEN Tripped(fr, ev2, ev2)
            ELSE Inside(fr, ev2, acquired)

(* CircuitBreaker::reset *)
Reset ==
    /\ frame.pc = "idle"
    /\ Apply(Outcome(Closed, clear(cfg, events, CircuitName), now, Ret("Unit", 0), {}, <<>>),
             Op("reset", "-", TRUE, "none"))

(* StorageBackend::clear(name), called on the store the breaker was built with
   by any holder of it, at any time *)
StoreClear ==
    Apply(Outcome(machine, clear(cfg, events, CircuitName), now, Ret("Unit", 0), {}, <<>>),
          Op("clear", "-", TRUE, "none"))

(* a clear_all that removes the entry of one circuit only *)
clear_all_of_one(c, ev) ==
    IF c.storage = "null" THEN ev ELSE [ev EXCEPT ![CircuitName] = <<>>]

(* StorageBackend::clear_all *)
clear_all(c, ev) == IF c.storage = "null" THEN ev ELSE [n \in DOMAIN ev |-> <<>>]

StoreClearAll ==
    Apply(Outcome(machine, clear_all(cfg, events), now, Ret("Unit", 0), {}, <<>>),
          Op("clear_all", "-", TRUE, "none"))

(* StorageBackend::record_success / record_failure(name, 0.0) on the store the
   breaker was built with, by another holder of it (a second breaker built with
   the same name) while this breaker is inside an API call; between its API calls
   the same writes are RecordSuccess and RecordFailure *)
StoreRecord ==
    /\ frame.pc # "idle"
    /\ \E kind \in {"Success", "Failure"} :
        Apply(Outcome(machine,
                      IF kind = "Success"
                      THEN record_success(cfg, events, CircuitName, 0, now)
                      ELSE record_failure(cfg, events, CircuitName, 0, now),
                      now, Ret("Unit", 0), {}, <<>>),
              Op("store_record", "-", TRUE, "none"))

(* StorageBackend::failure_count(name, window) / success_count(name, window), for
   every circuit name and window; a name with no entry in the map is a name with
   an empty log *)
FailureCount ==
    \E name \in Names, window \in 0..MaxTime :
      Apply(Outcome(machine, events, now,
                    Ret("Count", failure_count(cfg, events, name, window, now)), {}, <<>>),
            Query("failure_count", name, window))

SuccessCount ==
    \E name \in Names, window \in 0..MaxTime :
      Apply(Outcome(machine, events, now,
                    Ret("Count", success_count(cfg, events, name, window, now)), {}, <<>>),
            Query("success_count", name, window))

(* StorageBackend::event_log(name, limit): the call hands back the events, of
   which the model keeps the number *)
EventLog ==
    \E name \in Names, limit \in 0..MaxEvents :
      Apply(Outcome(machine, events, now,
                    Ret("Log", Len(event_log(cfg, events, name, limit))), {}, <<>>),
            Query("event_log", name, limit))

(* record_success / record_failure on the shared store under another circuit's
   name: the first event of a second breaker built on the same
   Arc<dyn StorageBackend> *)
OtherRecord ==
    /\ events["other"] = <<>>
    /\ \E kind \in {"Success", "Failure"} :
      Apply(Outcome(machine,
                    IF kind = "Success"
                    THEN record_success(cfg, events, "other", 0, now)
                    ELSE record_failure(cfg, events, "other", 0, now),
                    now, Ret("Unit", 0), {}, <<>>),
            Op("record_other", "-", TRUE, "none"))

(* CircuitBreaker::reset of the second breaker, as far as it reaches the shared
   store: self.context.storage.clear(&self.context.name) under its own name; its
   machine is a field of its own *)
OtherReset ==
    Apply(Outcome(machine, clear(cfg, events, "other"), now, Ret("Unit", 0), {}, <<>>),
          Op("reset_other", "-", TRUE, "none"))

(* a call that arrives while the breaker is not Closed and whose operation, *)
(* when it is admitted, succeeds                                            *)
ArrivingCall ==
    /\ frame.pc = "idle"
    /\ machine.state # "Closed"
    /\ CallEnter("ok", "none")

(* the steps of threads on the shared semaphore leave the breaker alone.    *)
(* overtaken is history, not state of the program: for a thread inside      *)
(* try_acquire, whether an acquire of another thread has succeeded since it *)
(* last read the counter (every step of a thread inside try_acquire reads   *)
(* the counter or returns)                                                  *)
ThreadStep(th, t, acq) ==
    /\ threads' = [threads EXCEPT ![th] = t]
    /\ acquired' = acq
    /\ overtaken' = [o \in Threads |->
                       IF o = th THEN FALSE
                       ELSE overtaken[o] \/ (acq > acquired /\ threads[o].pc = "loop")]
    /\ last_op' = Op("bulkhead", "-", TRUE, "none")
    /\ UNCHANGED <<cfg, now, events, machine, ret, invoked, fired, frame>>

(* try_acquire: let mut current = self.acquired.load() *)
TryAcquireLoad(th) ==
    /\ threads[th].pc = "idle"
    /\ ThreadStep(th, Thread("loop", acquired, threads[th].guards, "-"), acquired)

(* a loop whose failed compare-and-swap keeps the value it had read *)
TryAcquireLoop_stale(th) ==
    LET t == threads[th]
    IN  /\ t.pc = "loop"
        /\ IF at_capacity(t.current, cfg.max_concurrency)
           THEN ThreadStep(th, Thread("idle", t.current, t.guards, "None"), acquired)
           ELSE \/ /\ acquired = t.current
                   /\ ThreadStep(th, Thread("idle", t.current, t.guards + 1, "Some"),
                                 t.current + 1)
                \/ /\ acquired # t.current
                   /\ ThreadStep(th, Thread("loop", t.current, t.guards, "-"), acquired)

(* try_acquire, one turn of the loop: return None at capacity, else            *)
(* compare_exchange_weak(current, current + 1), which succeeds only on the     *)
(* value read and may fail on it too; a failure reads the counter again        *)
TryAcquireLoop(th) ==
    LET t == threads[th]
    IN  /\ t.pc = "loop"
        /\ IF at_capacity(t.current, cfg.max_concurrency)
           THEN ThreadStep(th, Thread("idle", t.current, t.guards, "None"), acquired)
           ELSE \/ /\ acquired = t.current
                   /\ ThreadStep(th, Thread("idle", t.current, t.guards + 1, "Some"),
                                 t.current + 1)
                \/ ThreadStep(th, Thread("loop", acquired, t.guards, "-"), acquired)

(* a timestamp read when record_event was entered, before the write lock *)
event_timestamp_at_entry(entered, t) == entered

(* record_event: timestamp: self.monotonic_time(), read when the event is built,
   the write lock held; entered is the clock when record_event was called *)
event_timestamp(entered, t) == t

(* the steps of threads recording on the shared store leave the breaker alone *)
StoreStep(th, t, ev) ==
    /\ threads' = [threads EXCEPT ![th] = t]
    /\ events' = ev
    /\ last_op' = Op("record_event", "-", TRUE, "none")
    /\ UNCHANGED <<cfg, now, machine, acquired, ret, invoked, fired, overtaken, frame>>

(* a thread calls record_failure(name, 0.0) and waits for self.events.write();
   its current field keeps the clock of that moment *)
RecordEnter(th) ==
    /\ threads[th].pc = "idle"
    /\ StoreStep(th, Thread("write_wait", now, threads[th].guards, "-"), events)

(* self.events.write() is granted: no other thread holds the lock *)
RecordLock(th) ==
    /\ threads[th].pc = "write_wait"
    /\ write_granted(threads)
    /\ StoreStep(th, [threads[th] EXCEPT !.pc = "writing"], events)

(* the rest of record_event under the lock: push, clean up, drop the lock *)
RecordPush(th) ==
    /\ threads[th].pc = "writing"
    /\ StoreStep(th, [threads[th] EXCEPT !.pc = "idle"],
                 [events EXCEPT ![CircuitName] =
                    record_event(@, "Failure", 0,
                                 event_timestamp(threads[th].current, now),
                                 cfg.max_events)])

(* record_event under the lock, step by step: the push of a success or a
   failure, the cleanup still to come *)
RecordAppend(th) ==
    /\ threads[th].pc = "writing"
    /\ \E kind \in {"Success", "Failure"} :
         StoreStep(th, [threads[th] EXCEPT !.pc = "cleanup"],
                   [events EXCEPT ![CircuitName] =
                      push_event(@, kind, 0, event_timestamp(threads[th].current, now))])

(* the cleanup of record_event, and the lock dropped at its end *)
RecordCleanup(th) ==
    /\ threads[th].pc = "cleanup"
    /\ StoreStep(th, [threads[th] EXCEPT !.pc = "idle"],
                 [events EXCEPT ![CircuitName] = cleanup_events(@, cfg.max_events)])

(* clear(name) by a thread: events.write(), remove, the lock dropped *)
ClearLocked(th) ==
    /\ threads[th].pc = "idle"
    /\ write_granted(threads)
    /\ events[CircuitName] # <<>>
    /\ StoreStep(th, threads[th], clear(cfg, events, CircuitName))

(* count_events / event_log: let events = self.events.read().unwrap() *)
ReadLock(th) ==
    /\ threads[th].pc = "idle"
    /\ read_granted(threads)
    /\ StoreStep(th, [threads[th] EXCEPT !.pc = "reading"], events)

(* the rest of a read under the read lock: failure_count, success_count or
   event_log of the circuit, with the clock read under the lock *)
ReadUnlock(th) ==
    /\ threads[th].pc = "reading"
    /\ threads' = [threads EXCEPT ![th].pc = "idle"]
    /\ \/ \E window \in 0..MaxTime :
            /\ ret' = Ret("Count", failure_count(cfg, events, CircuitName, window, now))
            /\ last_op' = Query("failure_count", CircuitName, window)
       \/ \E window \in 0..MaxTime :
            /\ ret' = Ret("Count", success_count(cfg, events, CircuitName, window, now))
            /\ last_op' = Query("success_count", CircuitName, window)
       \/ \E limit \in 0..(MaxEvents + 1) :
            /\ ret' = Ret("Log", Len(event_log(cfg, events, CircuitName, limit)))
            /\ last_op' = Query("event_log", CircuitName, limit)
    /\ UNCHANGED <<cfg, now, events, machine, acquired, invoked, fired, overtaken, frame>>

(* should_open, first read: ctx.storage.failure_count(name, failure_window_secs),
   a read of its own under the read lock; the absolute threshold decides at once
   when it is reached, otherwise the thread keeps the count in current *)
ShouldOpenFailures(th) ==
    /\ threads[th].pc = "idle"
    /\ read_granted(threads)
    /\ LET failures == failure_count(cfg, events, CircuitName, cfg.failure_window, now)
           decided == \/ cfg.failure_threshold # NoThreshold /\ failures >= cfg.failure_threshold
                      \/ cfg.failure_rate = NoRate
       IN  /\ threads' = [threads EXCEPT ![th] =
                            Thread(IF decided THEN "idle" ELSE "evaluating",
                                   failures, threads[th].guards, "-")]
           /\ ret' = IF ~decided THEN ret
                     ELSE IF cfg.failure_threshold # NoThreshold
                               /\ failures >= cfg.failure_threshold
                          THEN Ret("ShouldOpen", 1) ELSE Ret("ShouldOpen", 0)
           /\ last_op' = IF decided THEN Query("should_open", CircuitName, cfg.failure_window)
                         ELSE Query("failure_count", CircuitName, cfg.failure_window)
    /\ UNCHANGED <<cfg, now, events, machine, acquired, invoked, fired, overtaken, frame>>

(* should_open, second read: ctx.storage.success_count(name, failure_window_secs),
   another read under the read lock, then total = failures + successes and the
   rate rule *)
ShouldOpenSuccesses(th) ==
    /\ threads[th].pc = "evaluating"
    /\ read_granted(threads)
    /\ LET failures == threads[th].current
           successes == success_count(cfg, events, CircuitName, cfg.failure_window, now)
           total == failures + successes
       IN  /\ threads' = [threads EXCEPT ![th].pc = "idle"]
           /\ ret' = IF total >= cfg.minimum_calls
                        /\ RateReached(failures, total, cfg.failure_rate)
                     THEN Ret("ShouldOpen", 1) ELSE Ret("ShouldOpen", 0)
           /\ last_op' = Query("should_open", CircuitName, cfg.failure_window)
    /\ UNCHANGED <<cfg, now, events, machine, acquired, invoked, fired, overtaken, frame>>

(* Drop for BulkheadGuard: a thread that holds a guard lets it go *)
DropGuard(th) ==
    /\ threads[th].pc = "idle"
    /\ threads[th].guards > 0
    /\ ThreadStep(th, [threads[th] EXCEPT !.guards = @ - 1], release(acquired))

(* the code around the breaker that holds permits of its bulkhead: one thread *)
Holder == CHOOSE th \in Threads : TRUE

(* bulkhead.try_acquire() by the holder, with no other thread in between *)
HoldGuard ==
    LET t == threads[Holder]
        guard == try_acquire(acquired, cfg.max_concurrency)
    IN  /\ cfg.max_concurrency # NoBulkhead
        /\ t.pc = "idle"
        /\ ThreadStep(Holder,
                      Thread("idle", acquired,
                             IF guard.ok THEN t.guards + 1 ELSE t.guards,
                             IF guard.ok THEN "Some" ELSE "None"),
                      guard.acquired)

Next ==
    \/ Tick
    \/ Call
    \/ Proceed
    \/ RecordSuccess
    \/ RecordFailure
    \/ RecordSuccessAndMaybeClose
    \/ RecordFailureAndMaybeTrip
    \/ CheckAndTrip
    \/ Reset
    \/ StoreClear
    \/ StoreRecord

Spec == Init /\ [][Next]_vars

(* the same breaker API, built with a failure-rate threshold *)
InitGuard == InitWith(RateConfigs)

SpecGuard == InitGuard /\ [][Next]_vars

(* the seed breaker driven by calls, the clock and clears of its store; the log *)
(* is kept to MaxLog events                                                     *)
InitSeed3 == InitWith({Seed3Config})

NextSeed3 ==
    \/ Tick
    \/ Len(events[CircuitName]) < MaxLog /\ Call
    \/ Proceed
    \/ StoreClear

SpecSeed3 == InitSeed3 /\ [][NextSeed3]_vars

(* a breaker with a bulkhead, and a holder taking and dropping permits of it *)
InitBulkhead == InitWith(BulkheadConfigs)

NextBulkhead ==
    \/ Tick
    \/ Call
    \/ Proceed
    \/ Reset
    \/ HoldGuard
    \/ DropGuard(Holder)

SpecBulkhead == InitBulkhead /\ [][NextBulkhead]_vars

(* threads sharing one BulkheadSemaphore, every interleaving of their steps *)
InitSemaphore == InitWith(BulkheadConfigs)

NextSemaphore ==
    \E th \in Threads :
        \/ TryAcquireLoad(th)
        \/ TryAcquireLoop(th)
        \/ DropGuard(th)

SpecSemaphore == InitSemaphore /\ [][NextSemaphore]_vars

(* the same threads, one of which keeps being scheduled while it is inside
   try_acquire: it goes on to a turn of the loop that changes something (a
   compare_exchange_weak that fails on the value it expects changes nothing, and
   does not do so for ever) *)
SpecContend ==
    /\ InitSemaphore
    /\ [][NextSemaphore]_vars
    /\ WF_vars(TryAcquireLoop(Holder))

(* a breaker with a bulkhead whose permits a holder takes, on a store
   that a second breaker records on under its own name *)
InitShared ==
    InitWith({[Config(1, NoRate, 0, SuccessThreshold, FALSE)
                 EXCEPT !.max_concurrency = BulkheadLimit]})

NextShared ==
    \/ Tick
    \/ Call
    \/ Proceed
    \/ Reset
    \/ HoldGuard
    \/ OtherRecord

SpecShared == InitShared /\ [][NextShared]_vars

(* breakers whose three callbacks panic, tripping on the absolute threshold *)
InitHooks ==
    InitWith({[Config(ft, NoRate, 0, st, FALSE) EXCEPT !.callbacks = "panic"] :
            ft \in {1, FailureThreshold}, st \in {1, SuccessThreshold}})

NextHooks ==
    \/ Tick
    \/ Call
    \/ Proceed
    \/ RecordFailure
    \/ CheckAndTrip
    \/ RecordSuccessAndMaybeClose

SpecHooks == InitHooks /\ [][NextHooks]_vars

(* stores with a cap of no event, of one, of MaxEvents, and of LargeMaxEvents,
   whose cleanup removes more than one event *)
TrimConfigs ==
    {[Config(FailureThreshold, NoRate, 0, SuccessThreshold, FALSE)
        EXCEPT !.max_events = n] : n \in {0, 1, MaxEvents, LargeMaxEvents}}

(* record_failure(0.0) *)
RecordInstantFailure ==
    /\ RecordFailure
    /\ \A i \in DOMAIN events'[CircuitName] : events'[CircuitName][i].duration = 0

(* record_success(0.0) *)
RecordInstantSuccess ==
    /\ RecordSuccess
    /\ \A i \in DOMAIN events'[CircuitName] : events'[CircuitName][i].duration = 0

(* one circuit's log filling up and being cleaned up as the clock advances *)
InitTrim == InitWith(TrimConfigs)

NextTrim == Tick \/ RecordInstantFailure

SpecTrim == InitTrim /\ [][NextTrim]_vars

(* a memory store written under two circuit names and queried *)
InitStore == InitWith({Config(FailureThreshold, NoRate, 0, SuccessThreshold, FALSE)})

NextStore ==
    \/ Tick
    \/ RecordInstantSuccess
    \/ RecordInstantFailure
    \/ OtherRecord
    \/ FailureCount
    \/ SuccessCount

SpecStore == InitStore /\ [][NextStore]_vars

(* breakers built on NullStorage, with a positive failure_threshold and no rate
   threshold *)
InitNull ==
    InitWith({[Config(ft, NoRate, 0, SuccessThreshold, FALSE) EXCEPT !.storage = "null"] :
            ft \in {1, FailureThreshold}})

NextNull ==
    \/ Tick
    \/ Call
    \/ Proceed
    \/ RecordSuccess
    \/ RecordFailure
    \/ RecordFailureAndMaybeTrip
    \/ CheckAndTrip
    \/ FailureCount
    \/ SuccessCount
    \/ EventLog

SpecNull == InitNull /\ [][NextNull]_vars

(* a breaker opening on the first failure, on a store that a second breaker
   records on and clears at its reset under its own name and that is cleared by
   name and as a whole *)
InitClear == InitWith({Config(1, NoRate, 0, SuccessThreshold, FALSE)})

NextClear ==
    \/ Tick
    \/ Call
    \/ Proceed
    \/ RecordSuccess
    \/ RecordFailure
    \/ CheckAndTrip
    \/ RecordFailureAndMaybeTrip
    \/ Reset
    \/ OtherRecord
    \/ OtherReset
    \/ StoreClear
    \/ StoreClearAll

SpecClear == InitClear /\ [][NextClear]_vars

(* threads recording failures of one circuit on a store with a cap of one event
   and of MaxEvents, while the clock advances *)
InitRecorders ==
    InitWith({[Config(FailureThreshold, NoRate, 0, SuccessThreshold, FALSE)
                 EXCEPT !.max_events = n] : n \in {1, MaxEvents}})

NextRecorders ==
    \/ Tick
    \/ \E th \in Threads : RecordEnter(th) \/ RecordLock(th) \/ RecordPush(th)

SpecRecorders == InitRecorders /\ [][NextRecorders]_vars

(* one thread reading one circuit of a shared store while the other threads
   record to it and clear it, all within one tick of the clock *)
NextReaders ==
    \/ \E th \in Threads \ {Holder} :
         \/ RecordEnter(th) \/ RecordLock(th) \/ RecordAppend(th) \/ RecordCleanup(th)
         \/ ClearLocked(th)
    \/ ReadLock(Holder)
    \/ ReadUnlock(Holder)

SpecReaders == InitRecorders /\ [][NextReaders]_vars

(* a breaker evaluating should_open on one thread while other threads, breakers
   of the same circuit name on the same store, record and clear; rate rule alone,
   next to the absolute threshold, and both rules disabled *)
InitEvaluate ==
    InitWith({Config(NoThreshold, 1, 0, 1, FALSE),
              Config(FailureThreshold, 1, MaxMinimumCalls, 1, FALSE),
              Config(NoThreshold, NoRate, 0, 1, FALSE)})

NextEvaluate ==
    \/ \E th \in Threads \ {Holder} :
         \/ RecordEnter(th) \/ RecordLock(th) \/ RecordAppend(th) \/ RecordCleanup(th)
         \/ ClearLocked(th)
    \/ ShouldOpenFailures(Holder)
    \/ ShouldOpenSuccesses(Holder)

SpecEvaluate == InitEvaluate /\ [][NextEvaluate]_vars

(* a breaker driven through the manual operations and the queries as well as
   through call *)
InitManual ==
    InitWith({Config(ft, NoRate, 0, SuccessThreshold, FALSE) : ft \in {1, FailureThreshold}})

NextManual ==
    \/ Tick
    \/ Call
    \/ Proceed
    \/ RecordSuccess
    \/ RecordFailure
    \/ RecordSuccessAndMaybeClose
    \/ RecordFailureAndMaybeTrip
    \/ CheckAndTrip
    \/ RubyRecordFailure
    \/ IsOpen
    \/ IsClosed
    \/ StateName
    \/ RubyStateName
    \/ Reset

SpecManual == InitManual /\ [][NextManual]_vars

(* a breaker without a bulkhead and one with a bulkhead of a single permit that
   a holder takes and gives back, driven through call, the operations that
   attempt a transition, and reset *)
InitTransitions ==
    InitWith({[Config(ft, NoRate, 0, SuccessThreshold, FALSE) EXCEPT !.max_concurrency = limit] :
            ft \in {1, FailureThreshold}, limit \in {NoBulkhead, 1}})

NextTransitions ==
    \/ Tick
    \/ Call
    \/ Proceed
    \/ RecordSuccessAndMaybeClose
    \/ RecordFailureAndMaybeTrip
    \/ CheckAndTrip
    \/ Reset
    \/ HoldGuard
    \/ DropGuard(Holder)

SpecTransitions == InitTransitions /\ [][NextTransitions]_vars

(* a breaker with the rate rule alone whose minimum_calls is what the store
   holds, so that a success can be the call that completes the minimum *)
InitRateMinimum == InitWith({Config(NoThreshold, 1, MaxEvents, 1, FALSE)})

SpecRateMinimum == InitRateMinimum /\ [][Next]_vars

(* breakers on a store that does not clean up within a run, with a failure
   window of one tick and of the whole run, driven by calls; the log is kept to
   MaxLog events *)
InitReopen ==
    InitWith({[Config(FailureThreshold, NoRate, 0, st, FALSE)
            EXCEPT !.max_events = LargeMaxEvents, !.failure_window = w] :
            st \in {1, SuccessThreshold}, w \in {FailureWindow, MaxTime}})

NextReopen ==
    \/ Tick
    \/ Len(events[CircuitName]) < MaxLog /\ Call
    \/ Proceed

SpecReopen == InitReopen /\ [][NextReopen]_vars

(* breakers with the absolute threshold alone on stores that hold one event and
   MaxEvents events *)
InitSmallStore ==
    InitWith({[Config(FailureThreshold, NoRate, 0, SuccessThreshold, FALSE)
            EXCEPT !.max_events = n] : n \in {1, MaxEvents}})

SpecSmallStore == InitSmallStore /\ [][Next]_vars

InitJitter == InitWith(JitterConfigs)

NextJitter == Tick \/ Call \/ Proceed \/ Reset

SpecJitter == InitJitter /\ [][NextJitter]_vars

(* recovery: any call while the breaker is Closed; once it has left Closed the *)
(* calls that arrive all succeed, and they keep arriving                       *)
InitRecovery == InitWith(RecoveryConfigs)

NextRecovery ==
    \/ Tick
    \/ machine.state = "Closed" /\ Call
    \/ ArrivingCall
    \/ Proceed

SpecRecovery ==
    /\ InitRecovery
    /\ [][NextRecovery]_vars
    /\ WF_vars(ArrivingCall)
    /\ WF_vars(Proceed)

(* ======================= properties of the breaker ==================== *)
Log == events[CircuitName]
LogAfter == events'[CircuitName]

Range(seq) == {seq[i] : i \in DOMAIN seq}

(* events of one kind in a log that are no older than w at time t *)
Within(log, kind, t, w) ==
    Cardinality({i \in DOMAIN log : log[i].kind = kind /\ t - log[i].timestamp <= w})

(* the step just taken, read from the primed record of the API call *)
FailingCall == last_op'.op = "call" /\ last_op'.f = "err"
SucceedingCall == last_op'.op = "call" /\ last_op'.f = "ok"
CountedFailure ==
    \/ FailingCall /\ last_op'.verdict
    \/ last_op'.op = "record_failure_and_maybe_trip"
CountedSuccess ==
    \/ SucceedingCall
    \/ last_op'.op = "record_success_and_maybe_close"

(* the log as the Trip guard of a step reads it: failure_count on its first read,
   success_count on its second, the store's log when the step makes both *)
GuardRead == IF frame.pc = "rating" THEN AsRead(frame.seen, events, now) ELSE events
GuardLog == GuardRead[CircuitName]

(* the machine when the operation's outcome is handled: a call on an Open *)
(* breaker that ran the operation went to HalfOpen first                   *)
EnteredHalfOpen == machine.state = "Open" /\ "on_half_open" \in Range(fired')
Admitted == IF EnteredHalfOpen THEN HalfOpen(0) ELSE machine

(* the machine as the breaker's own thread holds it: between API calls the
   machine, inside one what the call has made of it so far; the same for the
   hooks the call has fired *)
Mine == IF frame.pc = "idle" THEN machine ELSE frame.p.m
MineAfter == IF frame'.pc = "idle" THEN machine' ELSE frame'.p.m
FiredAfter == IF frame'.pc = "idle" THEN fired' ELSE frame'.p.fired

(* the API call in progress takes its step from pc *)
Takes(pc) == frame.pc = pc /\ frame'.pc # pc

(* the API operation a step belongs to: the one in progress, or the one that
   begins with this step *)
OpOf ==
    IF frame.pc # "idle" THEN frame.op.op
    ELSE IF frame'.pc # "idle" THEN frame'.op.op ELSE last_op'.op

(* the step on which a call that is past the bulkhead looks at the machine and,
   when it is Open, at the clock *)
ChecksTimeout ==
    \/ Takes("admitted")
    \/ frame.pc = "idle" /\ OpOf = "call" /\ cfg.max_concurrency = NoBulkhead

(* the step on which a Trip attempt on a breaker that is not Open reads the last
   count it needs from the store and decides; when it decides to open, the
   stamping of opened_at is the step that follows *)
Decides ==
    \/ Takes("counting") /\ frame'.pc # "rating"
    \/ Takes("rating")
    \/ /\ frame.pc = "idle" /\ OpOf = "check_and_trip"
       /\ machine.state # "Open" /\ frame'.pc # "rating"
Opens == frame.pc # "marking" /\ frame'.pc = "marking"

(* C1: with failure_threshold = n, no rate threshold and no classifier, a failing
   call on a Closed breaker records its failure, stamped with the clock at the
   record, once the operation has ended, and then opens the breaker exactly when
   the failures it counts in the store within the last failure_window number at
   least n; older failures in the log do not count and it stays Closed below n.
   The call returns Open exactly when it fired on_open. *)
C1_OpensAtThreshold ==
    [][/\ (Takes("operation") /\ frame'.pc = "recording")
            => frame'.duration = now - frame.start
       /\ (Takes("recording") /\ frame.op.f = "err")
            => /\ LogAfter # <<>>
               /\ LogAfter[Len(LogAfter)] = Event("Failure", now, frame.duration)
               /\ frame'.pc = "counting"
       /\ (Decides /\ OpOf = "call" /\ Mine.state = "Closed"
              /\ ~cfg.classifier /\ cfg.failure_rate = NoRate
              /\ cfg.failure_threshold # NoThreshold)
            => /\ Opens <=> Within(Log, "Failure", now, cfg.failure_window)
                                >= cfg.failure_threshold
               /\ Opens \/ MineAfter = Closed
       /\ (Takes("marking") /\ OpOf = "call")
            => /\ MineAfter = Open(now)
               /\ FiredAfter = frame.p.fired \o <<"on_open">>
       /\ (FailingCall /\ machine.state = "Closed"
              /\ ~cfg.classifier /\ cfg.failure_rate = NoRate
              /\ cfg.failure_threshold # NoThreshold)
            => /\ machine'.state \in {"Closed", "Open"}
               /\ machine'.state = "Open" <=> fired' = <<"on_open">>]_vars

(* a failing call opened the breaker with exactly n failures in the window while
   the log also holds a failure that is older than the window *)
C1_Witness ==
    /\ last_op.op = "call" /\ last_op.f = "err" /\ ~cfg.classifier
    /\ machine.state = "Open" /\ fired = <<"on_open">>
    /\ Within(Log, "Failure", now, cfg.failure_window) = cfg.failure_threshold
    /\ \E i \in DOMAIN Log :
          Log[i].kind = "Failure" /\ now - Log[i].timestamp > cfg.failure_window

(* C2: a call without fallback on an Open breaker whose half-open timeout has not
   elapsed returns Open with the stored opened_at, runs nothing, appends no event
   and leaves the machine Open as it was. *)
C2_OpenFastFail ==
    [][(last_op'.op = "call" /\ last_op'.fallback = "none"
            /\ machine.state = "Open" /\ cfg.jitter = 0
            /\ now - machine.opened_at < cfg.half_open_timeout)
        => /\ ret' = Ret("Open", machine.opened_at)
           /\ invoked' = {}
           /\ fired' = <<>>
           /\ events' = events
           /\ machine' = machine]_vars

C2_Witness ==
    /\ last_op.op = "call" /\ last_op.fallback = "none"
    /\ machine.state = "Open" /\ machine.opened_at > 0
    /\ ret = Ret("Open", machine.opened_at)
    /\ now - machine.opened_at < cfg.half_open_timeout

(* the machine states a step went through: the state before, then the target of
   every transition the call performed, each announced by its hook *)
Target(hook) ==
    CASE hook = "on_open" -> "Open"
      [] hook = "on_half_open" -> "HalfOpen"
      [] OTHER -> "Closed"

Path(from, hooks) == <<from>> \o [i \in DOMAIN hooks |-> Target(hooks[i])]

Transitions ==
    {<<"Closed", "Open">>, <<"HalfOpen", "Open">>,
     <<"Open", "HalfOpen">>, <<"HalfOpen", "Closed">>}

(* C3: the breaker starts Closed, and every API call changes the state only along
   Closed->Open, HalfOpen->Open, Open->HalfOpen, HalfOpen->Closed, one transition
   after the other, or by reset to Closed; a call whose guarded events all fail
   their guard leaves the state as it was. *)
C3_LegalTransitions ==
    /\ machine = Closed
    /\ [][IF last_op'.op = "reset"
          THEN machine' = Closed /\ fired' = <<>>
          ELSE LET path == Path(machine.state, fired')
               IN  /\ \A i \in 1..(Len(path) - 1) : <<path[i], path[i + 1]>> \in Transitions
                   /\ machine'.state = path[Len(path)]
                   /\ fired' = <<>> => machine'.state = machine.state]_vars

(* one call took an Open breaker through HalfOpen to Closed *)
C3_Witness ==
    /\ last_op.op = "call"
    /\ fired = <<"on_half_open", "on_close">>
    /\ machine.state = "Closed"

(* C4 as stated: the Close transition fires exactly on a recorded success (call or
   record_success_and_maybe_close) in HalfOpen that raises consecutive_successes
   to exactly success_threshold; a success below the threshold leaves the breaker
   HalfOpen; and no other operation makes a HalfOpen breaker Closed. *)
C4_OnlySuccessCloses ==
    [][/\ "on_close" \in Range(fired')
            <=> /\ CountedSuccess /\ Admitted.state = "HalfOpen"
                /\ Admitted.consecutive_successes + 1 = cfg.success_threshold
       /\ (CountedSuccess /\ Admitted.state = "HalfOpen"
            /\ Admitted.consecutive_successes + 1 < cfg.success_threshold)
            => machine' = HalfOpen(Admitted.consecutive_successes + 1)
       /\ (Admitted.state = "HalfOpen" /\ machine'.state = "Closed")
            => /\ CountedSuccess
               /\ Admitted.consecutive_successes + 1 = cfg.success_threshold]_vars

(* C4 amended: the Close transition fires exactly on a recorded success in HalfOpen
   that raises consecutive_successes to exactly success_threshold; a success below
   the threshold leaves the breaker HalfOpen with the count raised by one; and a
   HalfOpen breaker becomes Closed only by that transition or by reset. *)
C4_CloseIffThreshold ==
    [][/\ "on_close" \in Range(fired')
            <=> /\ CountedSuccess /\ Admitted.state = "HalfOpen"
                /\ Admitted.consecutive_successes + 1 = cfg.success_threshold
       /\ (CountedSuccess /\ Admitted.state = "HalfOpen"
            /\ Admitted.consecutive_successes + 1 < cfg.success_threshold)
            => machine' = HalfOpen(Admitted.consecutive_successes + 1)
       /\ (Admitted.state = "HalfOpen" /\ machine'.state = "Closed")
            => "on_close" \in Range(fired') \/ last_op'.op = "reset"]_vars

(* the second success of a HalfOpen episode closed the breaker *)
C4_Witness ==
    /\ last_op.op \in {"call", "record_success_and_maybe_close"}
    /\ fired = <<"on_close">>
    /\ machine.state = "Closed"
    /\ cfg.success_threshold > 1

(* the Trip guard of section 4.5 on the log as it stands at time t *)
ShouldOpenRule(c, log, t) ==
    LET F == Within(log, "Failure", t, c.failure_window)
        T == F + Within(log, "Success", t, c.failure_window)
    IN  \/ c.failure_threshold # NoThreshold /\ F >= c.failure_threshold
        \/ /\ c.failure_rate # NoRate /\ T >= c.minimum_calls /\ T > 0
           /\ F * RateDen >= c.failure_rate * T

(* C5: a counted failure in HalfOpen opens the breaker when the Trip guard holds
   of the counts it reads once the failure is recorded, and otherwise leaves it
   HalfOpen with consecutive_successes = 0, from where the next success counts
   as 1. *)
C5_HalfOpenFailure ==
    [][/\ (Decides /\ OpOf \in {"call", "record_failure_and_maybe_trip"}
              /\ Mine.state = "HalfOpen")
            => IF ShouldOpenRule(cfg, GuardLog, now)
               THEN Opens /\ MineAfter.state = "Open"
               ELSE MineAfter = HalfOpen(0)
       /\ (CountedFailure /\ Admitted.state = "HalfOpen")
            => IF "on_open" \in Range(fired')
               THEN machine'.state = "Open"
               ELSE machine' = HalfOpen(0)
       /\ (CountedSuccess /\ machine = HalfOpen(0) /\ cfg.success_threshold > 1)
            => machine' = HalfOpen(1)]_vars

(* a failing call left the breaker HalfOpen with the progress reset *)
C5_Witness ==
    /\ last_op.op = "call" /\ last_op.f = "err"
    /\ fired = <<>>
    /\ machine = HalfOpen(0)
    /\ cfg.success_threshold > 1
    /\ \E i \in DOMAIN Log : Log[i].kind = "Success"

(* C8: a failed operation the classifier does not count is returned as Execution
   and changes nothing else: no event is recorded, no transition is made by the
   failure, and in HalfOpen consecutive_successes keeps its value; so ignored
   failures never open the circuit. *)
C8_IgnoredFailure ==
    [][(FailingCall /\ cfg.classifier /\ ~last_op'.verdict)
        => /\ ret' = Ret("Execution", 0)
           /\ events' = events
           /\ machine' = Admitted
           /\ "on_open" \notin Range(fired')]_vars

(* an ignored failure during a HalfOpen episode with one success counted *)
C8_Witness ==
    /\ last_op.op = "call" /\ last_op.f = "err" /\ ~last_op.verdict
    /\ ret = Ret("Execution", 0)
    /\ machine = HalfOpen(1)

(* C9: whenever the window holds T = F + S > 0 events, should_open is true exactly
   when (failure_threshold is set and F >= failure_threshold) or (failure_rate is
   set and T >= minimum_calls and F/T >= failure_rate), and every Trip attempt on
   a breaker that is not Open opens it exactly when that holds of the F and S it
   read from the store; with the absolute threshold disabled no attempt opens it
   while the T it read is below minimum_calls. *)
C9_GuardRule ==
    /\ [](LET F == Within(Log, "Failure", now, cfg.failure_window)
              T == F + Within(Log, "Success", now, cfg.failure_window)
          IN  T > 0 =>
                (should_open(cfg, events, now)
                    <=> \/ cfg.failure_threshold # NoThreshold /\ F >= cfg.failure_threshold
                        \/ /\ cfg.failure_rate # NoRate /\ T >= cfg.minimum_calls
                           /\ F * RateDen >= cfg.failure_rate * T))
    /\ [][Decides =>
            LET F == Within(GuardLog, "Failure", now, cfg.failure_window)
                T == F + Within(GuardLog, "Success", now, cfg.failure_window)
            IN  /\ T > 0 =>
                     (Opens
                        <=> \/ cfg.failure_threshold # NoThreshold
                                /\ F >= cfg.failure_threshold
                            \/ /\ cfg.failure_rate # NoRate /\ T >= cfg.minimum_calls
                               /\ F * RateDen >= cfg.failure_rate * T)
                /\ (cfg.failure_threshold = NoThreshold /\ T < cfg.minimum_calls)
                     => ~Opens
                /\ Opens \/ MineAfter.state # "Open"]_vars

(* the rate rule alone opened a breaker whose absolute threshold was not reached,
   on a ratio that just equals the configured rate *)
C9_Witness ==
    /\ last_op.op \in {"call", "record_failure_and_maybe_trip", "check_and_trip"}
    /\ fired = <<"on_open">> /\ machine = Open(now)
    /\ cfg.failure_threshold # NoThreshold
    /\ LET F == Within(Log, "Failure", now, cfg.failure_window)
           T == F + Within(Log, "Success", now, cfg.failure_window)
       IN  /\ F < cfg.failure_threshold
           /\ T >= cfg.minimum_calls
           /\ F * RateDen = cfg.failure_rate * T

(* C10 as stated: check_and_trip that reads no event in the window (T = 0)
   returns false and leaves the machine as it was, for every configuration. *)
C10_EmptyWindowNeverTrips ==
    [][(/\ Decides /\ OpOf = "check_and_trip"
        /\ Within(GuardLog, "Failure", now, cfg.failure_window)
             + Within(GuardLog, "Success", now, cfg.failure_window) = 0)
        => /\ ~Opens
           /\ ret' = Ret("False", 0)
           /\ MineAfter = Mine
           /\ FiredAfter = <<>>]_vars

(* the kinds of the events in a log, oldest first *)
Kinds(log) == [i \in DOMAIN log |-> log[i].kind]

(* C6 as stated: on the seed breaker, once two failing calls have opened it, the
   timeout has elapsed and one call has succeeded (HalfOpen, consecutive_successes
   = 1, the log holding the two failures and the success), a failing call, its
   own failure recorded after them, leaves it HalfOpen with consecutive_successes
   = 0, and the next successful call on the breaker in that state yields
   consecutive_successes = 1. *)
C6_ProbeFailureKeepsHalfOpen ==
    [][/\ (FailingCall /\ machine = HalfOpen(1)
              /\ Kinds(Log) = <<"Failure", "Failure", "Success", "Failure">>)
            => machine' = HalfOpen(0)
       /\ (SucceedingCall /\ machine = HalfOpen(0))
            => machine' = HalfOpen(1)]_vars

(* C6 amended: on the seed breaker a failing call in HalfOpen with one success
   counted leaves it HalfOpen with consecutive_successes = 0 only when fewer than
   failure_threshold failures, this one included, lie in the window, as after the
   store was cleared; when the two failures that opened the breaker are still in
   the 60 s window the failing call re-opens it.  From HalfOpen with
   consecutive_successes = 0 the next successful call yields 1. *)
C6_ProbeFailureResetsOrReopens ==
    [][/\ (Decides /\ OpOf = "call" /\ Mine.state = "HalfOpen")
            => IF Within(Log, "Failure", now, cfg.failure_window)
                    >= cfg.failure_threshold
               THEN Opens
               ELSE MineAfter = HalfOpen(0)
       /\ (FailingCall /\ Admitted.state = "HalfOpen")
            => IF Takes("marking")
               THEN machine' = Open(now') /\ fired' # <<>>
               ELSE machine' = HalfOpen(0)
       /\ (FailingCall /\ machine = HalfOpen(1)
              /\ Kinds(Log) = <<"Failure", "Failure", "Success", "Failure">>)
            => machine' = Open(now')
       /\ (FailingCall /\ machine = HalfOpen(1) /\ Kinds(Log) = <<"Success", "Failure">>)
            => machine' = HalfOpen(0)
       /\ (SucceedingCall /\ machine = HalfOpen(0))
            => machine' = HalfOpen(1)]_vars

(* after a clear of the store: a success, a failure that reset the progress, and a
   success that counts as 1 again *)
C6_Witness ==
    /\ last_op.op = "call" /\ last_op.f = "ok"
    /\ machine = HalfOpen(1)
    /\ Kinds(Log) = <<"Success", "Failure", "Success">>

(* the half-open timeout of an Open breaker has run out at time t *)
TimedOut(t) ==
    machine.state = "Open" /\ t - machine.opened_at >= cfg.half_open_timeout

(* the half-open timeout has run out on an Open breaker *)
TimeoutRanOut == TimedOut(now)

(* C7: with jitter 0, the first call that arrives on an Open breaker and reads
   the clock after the half-open timeout has run out moves it to HalfOpen and
   goes on to run the operation, whose success counts as
   consecutive_successes = 1; the success_threshold-th consecutive
   successful call closes the breaker; and when such calls keep arriving an Open
   breaker whose timeout has run out is eventually Closed. *)
C7_Recovery ==
    /\ [][/\ (ChecksTimeout /\ OpOf = "call" /\ TimedOut(now) /\ cfg.jitter = 0)
               => /\ MineAfter = HalfOpen(0)
                  /\ FiredAfter = <<"on_half_open">>
                  /\ frame'.pc = "starting"
          /\ (last_op'.op = "call" /\ "on_half_open" \in Range(fired'))
               => /\ "operation" \in invoked'
                  /\ (last_op'.f = "ok"
                       => machine' = IF cfg.success_threshold = 1
                                     THEN Closed ELSE HalfOpen(1))
          /\ (SucceedingCall /\ Admitted.state = "HalfOpen")
               => machine' = IF Admitted.consecutive_successes + 1 = cfg.success_threshold
                             THEN Closed
                             ELSE HalfOpen(Admitted.consecutive_successes + 1)]_vars
    /\ (TimeoutRanOut ~> machine.state = "Closed")

(* the breaker recovered: it was opened by failures, and the last of
   success_threshold > 1 successful calls in a row closed it *)
C7_Witness ==
    /\ last_op.op = "call" /\ last_op.f = "ok"
    /\ machine = Closed /\ fired = <<"on_close">>
    /\ cfg.success_threshold = SuccessThreshold
    /\ Len(Log) >= 2
    /\ Log[Len(Log)].kind = "Success" /\ Log[Len(Log) - 1].kind = "Success"

(* the guards held by the threads in a set *)
RECURSIVE GuardsHeld(_)
GuardsHeld(ths) ==
    IF ths = {} THEN 0
    ELSE LET th == CHOOSE x \in ths : TRUE
         IN  threads[th].guards + GuardsHeld(ths \ {th})

(* C11: under every interleaving of try_acquire and guard drops by the threads
   that share one bulkhead, acquired never exceeds the limit and counts exactly
   the guards held; a try_acquire returns None only on a turn of its loop whose
   value of acquired, read from the counter, is at least the limit, and it
   returns a guard only by raising the counter from a value below the limit. *)
C11_AcquiredWithinLimit ==
    /\ [](/\ acquired <= cfg.max_concurrency
          /\ acquired = GuardsHeld(Threads)
          /\ \A th \in Threads : threads[th].current \in 0..cfg.max_concurrency)
    /\ [][\A th \in Threads :
            /\ (threads[th].pc = "loop" /\ threads'[th].result = "None")
                 => threads[th].current >= cfg.max_concurrency /\ acquired' = acquired
            /\ (threads[th].pc = "loop" /\ threads'[th].result = "Some")
                 => /\ acquired < cfg.max_concurrency
                    /\ acquired' = acquired + 1
            /\ (threads[th].pc = "idle" /\ threads'[th].pc = "loop")
                 => threads'[th].current = acquired]_vars

(* the bulkhead is full, one thread was turned away, and another is in its loop
   with a value of acquired that is no longer the counter's *)
C11_Witness ==
    /\ acquired = cfg.max_concurrency
    /\ \E a, b, c \in Threads :
          /\ threads[a].result = "None" /\ threads[a].pc = "idle"
          /\ threads[b].result = "Some" /\ threads[b].guards > 0
          /\ threads[c].pc = "loop" /\ threads[c].current < acquired

(* C12: a call on a breaker with a bulkhead that was given a permit holds it,
   counted once, until it returns and gives it back on every way out: Ok,
   Execution, Open, HalfOpenLimitReached, a result of the fallback, or the
   unwinding of a panic of the operation; so what the call adds to acquired it
   takes off again, and between calls the counter equals the guards held outside
   the breaker. *)
C12_PermitReleased ==
    /\ [](/\ acquired = GuardsHeld(Threads) + (IF frame.guard THEN 1 ELSE 0)
          /\ frame.pc = "idle" => acquired = GuardsHeld(Threads))
    /\ [][/\ (frame.pc = "idle" /\ frame'.pc # "idle"
                /\ cfg.max_concurrency # NoBulkhead)
               => /\ acquired < cfg.max_concurrency
                  /\ acquired' = acquired + 1
                  /\ frame'.guard
          /\ (last_op'.op = "call" /\ cfg.max_concurrency # NoBulkhead
                /\ ret'.tag \in {"Ok", "Execution", "Open", "HalfOpenLimitReached", "Panic"})
               => /\ frame.guard
                  /\ acquired' = acquired - 1
                  /\ acquired' = GuardsHeld(Threads)]_vars

(* the operation panicked under a permit while the holder held another one, and
   only the holder's is still counted *)
C12_Witness ==
    /\ last_op.op = "call" /\ last_op.f = "panic" /\ ret.tag = "Panic"
    /\ cfg.max_concurrency > 1
    /\ threads[Holder].guards = 1
    /\ acquired = 1

(* C13: a call made on a saturated bulkhead returns BulkheadFull with the limit at
   once and changes nothing: neither operation nor fallback runs, no event is
   recorded, no hook fires, the machine stays as it was even when it is Open with
   its timeout run out, and acquired is unchanged; a call made when a permit is
   free is not refused with BulkheadFull. *)
C13_BulkheadFull ==
    [][/\ (last_op'.op = "call" /\ frame.pc = "idle"
             /\ cfg.max_concurrency # NoBulkhead /\ acquired >= cfg.max_concurrency)
            => /\ ret' = Ret("BulkheadFull", cfg.max_concurrency)
               /\ invoked' = {} /\ fired' = <<>>
               /\ events' = events /\ machine' = machine
               /\ acquired' = acquired /\ now' = now
       /\ (frame.pc = "idle" /\ frame'.pc # "idle"
             /\ cfg.max_concurrency # NoBulkhead)
            => acquired < cfg.max_concurrency
       /\ (last_op'.op = "call" /\ ret'.tag = "BulkheadFull")
            => frame.pc = "idle" /\ acquired >= cfg.max_concurrency]_vars

(* a call with a fallback was refused by the full bulkhead while the breaker was
   Open with its timeout run out, and the breaker is still Open *)
C13_Witness ==
    /\ last_op.op = "call" /\ last_op.fallback # "none"
    /\ ret = Ret("BulkheadFull", cfg.max_concurrency)
    /\ acquired = cfg.max_concurrency
    /\ TimeoutRanOut

(* what a call leaves whose operation, started d ticks ago, has just succeeded or
   failed with a counted error *)
CallEnding(f, d) ==
    call(cfg, machine, events, now' - d, acquired, f, d, TRUE, "none", cfg.half_open_timeout)

(* machine, log and hooks of this step are those of such a call *)
SameAsCall(f) ==
    \E d \in Durations :
        /\ machine' = CallEnding(f, d).machine
        /\ events' = CallEnding(f, d).events
        /\ fired' = CallEnding(f, d).fired

(* check_and_trip right after record_failure, on a breaker that is not Open: the
   step on which it reads the store and decides *)
RecordedThenChecked ==
    /\ last_op.op = "record_failure" /\ frame.pc = "idle"
    /\ Decides /\ OpOf = "check_and_trip" /\ ~cfg.classifier

(* C14 as stated: from Closed or HalfOpen, without a classifier, record_success(d)
   leaves the machine (state, consecutive_successes) and the log that a call with
   a succeeding operation leaves, and record_failure(d) followed by
   check_and_trip() leaves the machine, opened_at included, and the log that a
   call with a failing operation leaves. *)
C14_ManualSameAsCall ==
    [][/\ (last_op'.op = "record_success" /\ ~cfg.classifier
             /\ machine.state \in {"Closed", "HalfOpen"})
            => SameAsCall("ok")
       /\ RecordedThenChecked
            => /\ events' = events
               /\ IF Opens
                  THEN on_failure(cfg, machine, events, now).m.state = "Open"
                  ELSE machine' = on_failure(cfg, machine, events, now).m]_vars

(* C14 amended: on a Closed breaker record_success(d) and record_failure(d)
   followed by check_and_trip() leave what the call leaves.  On a HalfOpen breaker
   record_success(d) only appends the event: consecutive_successes is not raised
   and the breaker never closes; record_failure(d) followed by check_and_trip()
   opens the breaker, stamping opened_at, exactly when the call would, but leaves
   consecutive_successes as it was when Trip does not fire.  The effects of the
   call in HalfOpen are those of record_success_and_maybe_close(d) and
   record_failure_and_maybe_trip(d): the latter writes the failure the call
   writes, and then makes of the machine what the call makes of it on the counts
   it reads; whichever operation opens the breaker stamps opened_at with the
   clock it reads after Trip has fired. *)
C14_ManualEquivalence ==
    [][/\ (last_op'.op = "record_success" /\ ~cfg.classifier)
            => /\ machine' = machine /\ fired' = <<>>
               /\ \E d \in Durations :
                     events' = record_success(cfg, events, CircuitName, d, now)
               /\ machine.state = "Closed" => SameAsCall("ok")
       /\ RecordedThenChecked
            => /\ events' = events
               /\ IF on_failure(cfg, machine, GuardRead, now).m.state = "Open"
                  THEN Opens
                  ELSE machine' = machine /\ fired' = <<>>
               /\ (machine.state = "Closed" /\ ~Opens)
                    => machine' = on_failure(cfg, machine, GuardRead, now).m
       /\ (Takes("marking") /\ ~cfg.classifier)
            => /\ MineAfter = Open(now)
               /\ FiredAfter = frame.p.fired \o <<"on_open">>
       /\ (last_op'.op = "record_success_and_maybe_close" /\ ~cfg.classifier
             /\ machine.state \in {"Closed", "HalfOpen"})
            => SameAsCall("ok")
       /\ (frame.pc = "idle" /\ frame'.op.op = "record_failure_and_maybe_trip"
             /\ ~cfg.classifier)
            => \E d \in Durations :
                  /\ events' = CallEnding("err", d).events
                  /\ on_failure(cfg, machine, events', now').m = CallEnding("err", d).machine
                  /\ on_failure(cfg, machine, events', now').hooks = CallEnding("err", d).fired
       /\ (Decides /\ OpOf \in {"call", "record_failure_and_maybe_trip"}
             /\ ~cfg.classifier)
            => /\ events' = events
               /\ IF on_failure(cfg, Mine, GuardRead, now).m.state = "Open"
                  THEN Opens
                  ELSE /\ MineAfter = on_failure(cfg, Mine, GuardRead, now).m
                       /\ FiredAfter = frame.p.fired]_vars

(* record_failure and check_and_trip on a HalfOpen breaker with one success
   counted: the failure is in the log, Trip did not fire, and the count still
   stands at 1 *)
C14_Witness ==
    /\ last_op.op = "check_and_trip" /\ ret.tag = "False"
    /\ machine = HalfOpen(1)
    /\ Len(Log) > 0 /\ Log[Len(Log)].kind = "Failure"

(* C15: every API call that takes the breaker into Open (a failing call,
   record_failure_and_maybe_trip or check_and_trip, from Closed or from HalfOpen)
   stamps opened_at with the store's clock as mark_open reads it once Trip has
   fired, which is > 0, and returns with that value; opened_at then stays as it
   is while the breaker is Open, and the Open error and the fallback's context
   carry exactly that value. *)
C15_OpenedAtStamped ==
    /\ [](machine.state = "Open" => machine.opened_at > 0 /\ machine.opened_at <= now)
    /\ [][/\ "on_open" \in Range(fired') <=> (machine'.state = "Open" /\ machine' # machine)
          /\ Opens => Decides /\ Mine.state \in {"Closed", "HalfOpen"}
          /\ Takes("marking") => MineAfter = Open(now) /\ now > 0
          /\ "on_open" \in Range(fired')
               => /\ machine'.state = "Open"
                  /\ machine'.opened_at > 0 /\ machine'.opened_at <= now'
                  /\ cfg.max_concurrency = NoBulkhead => machine' = Open(now')
                  /\ Admitted.state \in {"Closed", "HalfOpen"}
                  /\ CountedFailure \/ last_op'.op = "check_and_trip"
          /\ (machine.state = "Open" /\ machine'.state = "Open"
                /\ "on_open" \notin Range(fired'))
               => machine'.opened_at = machine.opened_at
          /\ (last_op'.op = "call" /\ ret'.tag = "Open")
               => ret'.value = machine.opened_at /\ machine' = machine
          /\ (last_op'.op = "call" /\ "fallback" \in invoked')
               => ret'.value = machine.opened_at /\ machine' = machine]_vars

(* the fallback of a later call was handed the opened_at stamped when the breaker
   opened, after the clock had moved on from where it stood at construction *)
C15_Witness ==
    /\ last_op.op = "call" /\ invoked = {"fallback"}
    /\ machine.state = "Open"
    /\ ret = Ret("Ok", machine.opened_at)
    /\ machine.opened_at > 1

(* C16: every entry into HalfOpen, the first and every later one, starts with
   consecutive_successes = 0: the call that makes the entry leaves HalfOpen with 0
   when its operation panics or fails without being counted or without tripping,
   and leaves the count at exactly 1 (Closed when success_threshold is 1) when its
   operation succeeds; HalfOpen is entered only from Open, by a call. *)
C16_HalfOpenStartsAtZero ==
    [][/\ "on_half_open" \in Range(fired')
            => /\ last_op'.op = "call" /\ machine.state = "Open"
               /\ fired'[1] = "on_half_open"
               /\ last_op'.f = "ok"
                    => machine' = IF cfg.success_threshold <= 1
                                  THEN Closed ELSE HalfOpen(1)
               /\ last_op'.f = "panic" => machine' = HalfOpen(0)
               /\ (last_op'.f = "err" /\ "on_open" \notin Range(fired'))
                    => machine' = HalfOpen(0)
       /\ (machine.state # "HalfOpen" /\ machine'.state = "HalfOpen")
            => "on_half_open" \in Range(fired')]_vars

(* a HalfOpen breaker that counted no success yet, entered by a call whose
   operation panicked, the log holding a success followed by the failure that
   opened the breaker *)
C16_Witness ==
    /\ last_op.op = "call" /\ last_op.f = "panic"
    /\ fired = <<"on_half_open">>
    /\ machine = HalfOpen(0)
    /\ Kinds(Log) = <<"Success", "Failure">>

(* C17: without jitter the effective timeout is exactly half_open_timeout: a call
   on an Open breaker that passes the bulkhead moves it to HalfOpen if and only if
   now - opened_at >= half_open_timeout when it reads the clock for its
   AttemptReset, and it runs the operation exactly when it has moved. *)
C17_ExactTimeout ==
    [][/\ (ChecksTimeout /\ OpOf = "call" /\ Mine.state = "Open" /\ cfg.jitter = 0)
            => /\ "on_half_open" \in Range(FiredAfter)
                    <=> now - Mine.opened_at >= cfg.half_open_timeout
               /\ MineAfter = IF now - Mine.opened_at >= cfg.half_open_timeout
                              THEN HalfOpen(0) ELSE Mine
       /\ (last_op'.op = "call" /\ machine.state = "Open")
            => ("on_half_open" \in Range(fired') <=> "operation" \in invoked')]_vars

(* a call entered HalfOpen exactly half_open_timeout after the breaker opened: the
   breaker opened on the first tick of the clock, with the failure that ends the
   log, and the call, whose operation panicked at once, came half_open_timeout
   later *)
C17_Witness ==
    /\ last_op.op = "call" /\ last_op.f = "panic"
    /\ fired = <<"on_half_open">>
    /\ cfg.jitter = 0
    /\ Log # <<>>
    /\ Log[Len(Log)] = Event("Failure", 1, 0)
    /\ now = 1 + cfg.half_open_timeout

(* C18: with a jitter_factor j > 0 every sampled timeout lies in
   [base * (1 - j), base], base being half_open_timeout: a call on an Open breaker
   never moves it to HalfOpen while now - opened_at < base * (1 - j), and always
   does once now - opened_at >= base. *)
C18_JitterRange ==
    [][(ChecksTimeout /\ OpOf = "call" /\ Mine.state = "Open" /\ cfg.jitter > 0)
          => LET elapsed == now - Mine.opened_at
                 base == cfg.half_open_timeout
             IN  /\ elapsed * JitterDen < base * (JitterDen - cfg.jitter)
                      => "on_half_open" \notin Range(FiredAfter)
                 /\ elapsed >= base => "on_half_open" \in Range(FiredAfter)]_vars

(* C19: from any state reset() leaves the breaker Closed with an empty log for its
   own name (failure and success counts 0 over every window), fires no hook,
   invokes nothing, returns no error, and leaves the acquired count of the
   bulkhead and the logs of the other circuit names as they were. *)
C19_ResetFrame ==
    [][last_op'.op = "reset"
         => /\ machine' = Closed
            /\ LogAfter = <<>>
            /\ \A window \in 0..MaxTime :
                  /\ failure_count(cfg, events', CircuitName, window, now') = 0
                  /\ success_count(cfg, events', CircuitName, window, now') = 0
            /\ fired' = <<>> /\ invoked' = {}
            /\ ret' = Ret("Unit", 0)
            /\ acquired' = acquired
            /\ \A n \in Names \ {CircuitName} : events'[n] = events[n]]_vars

(* a reset made while the holder has every permit of the bulkhead and the store
   holds events of the other circuit: the permits are still out and the other
   log is still there *)
C19_Witness ==
    /\ last_op.op = "reset"
    /\ machine = Closed /\ Log = <<>>
    /\ acquired = cfg.max_concurrency /\ acquired = BulkheadLimit
    /\ events["other"] # <<>>

(* C20: a call made with a fallback while the breaker is Open and stays Open after
   the AttemptReset attempt invokes the fallback and not the operation, with the
   opened_at of the breaker; the fallback's Ok comes back as Ok and its error as
   Execution(error), and neither records an event, changes the state or fires a
   hook. *)
C20_FallbackWhileOpen ==
    [][(/\ last_op'.op = "call" /\ last_op'.fallback # "none"
        /\ machine.state = "Open" /\ ret'.tag # "BulkheadFull"
        /\ "on_half_open" \notin Range(fired'))
          => /\ invoked' = {"fallback"}
             /\ ret' = IF last_op'.fallback = "ok"
                       THEN Ret("Ok", machine.opened_at)
                       ELSE Ret("Execution", machine.opened_at)
             /\ events' = events /\ machine' = machine
             /\ fired' = <<>>]_vars

(* the fallback of a call on an Open breaker failed: the call returned its error
   as Execution, the operation did not run and the breaker is still Open *)
C20_Witness ==
    /\ last_op.op = "call" /\ last_op.fallback = "err"
    /\ machine.state = "Open"
    /\ invoked = {"fallback"}
    /\ ret = Ret("Execution", machine.opened_at)
    /\ Log # <<>>

(* C21: an operation that panics instead of returning is treated as a failure:
   the call leaves the event log and the machine as a call whose operation
   returned a counted error after the same time leaves them, a failure event
   recorded and Trip evaluated. *)
C21_PanicIsFailure ==
    [][(Takes("operation")
          /\ (IF frame'.pc = "idle" THEN last_op'.f ELSE frame'.op.f) = "panic")
         => LET failed == execute_call(cfg, frame.p.m, events, frame.start,
                                       frame.p.fired, "err", now - frame.start, TRUE)
            IN  /\ events' = failed.events
                /\ MineAfter = failed.machine]_vars

(* C22: a hook that panics when it is invoked does not unwind past the breaker:
   the API call that fired it hands back the return value and leaves the state,
   opened_at and the event log that it does with callbacks that return, be it a
   call returning when its operation ends, after it recorded the outcome, from
   its Trip attempt or from the stamping of opened_at, check_and_trip or
   record_success_and_maybe_close. *)
C22_HookPanicContained ==
    [][(cfg.callbacks = "panic" /\ fired' # <<>>)
         => LET quiet == [cfg EXCEPT !.callbacks = "return"]
            IN  /\ (last_op'.op = "call" /\ frame.pc = "operation")
                     => LET q == execute_call(quiet, frame.p.m, events, frame.start,
                                              frame.p.fired, last_op'.f,
                                              now - frame.start, last_op'.verdict)
                        IN  /\ ret' = q.ret /\ machine' = q.machine
                            /\ events' = q.events
                /\ (last_op'.op = "call" /\ frame.pc = "recording")
                     => LET q == execute_call(quiet, frame.p.m, events,
                                              now - frame.duration, frame.p.fired,
                                              frame.op.f, frame.duration,
                                              frame.op.verdict)
                        IN  /\ ret' = q.ret /\ machine' = q.machine
                            /\ events' = q.events
                /\ (last_op'.op = "call" /\ frame.pc \in {"counting", "rating"})
                     => /\ ret' = Ret("Execution", 0)
                        /\ machine' = on_failure(quiet, frame.p.m, GuardRead, now).m
                        /\ events' = events
                /\ (last_op'.op = "call" /\ frame.pc = "marking")
                     => /\ ret' = Ret("Execution", 0)
                        /\ machine' = mark_open(frame.p.m, now)
                        /\ events' = events
                /\ (last_op'.op = "call" /\ frame.pc = "leaving")
                     => /\ ret' = frame.p.ret /\ machine' = frame.p.m
                        /\ events' = events
                /\ last_op'.op = "call"
                     => frame.pc \in {"operation", "recording", "counting", "rating",
                                      "marking", "leaving"}
                /\ last_op'.op = "check_and_trip"
                     => /\ frame.pc = "marking"
                        /\ ret' = Ret("True", 0)
                        /\ machine' = mark_open(frame.p.m, now)
                        /\ events' = events
                /\ last_op'.op = "record_success_and_maybe_close"
                     => /\ ret' = Ret("Unit", 0)
                        /\ machine' = Closed
                        /\ Kinds(LogAfter)[Len(LogAfter)] = "Success"]_vars

(* a call on an Open breaker entered HalfOpen, its operation failed and the
   breaker opened again: on_half_open and on_open both panicked, and the call
   returned the operation's error *)
C22_Witness ==
    /\ cfg.callbacks = "panic"
    /\ last_op.op = "call" /\ last_op.f = "err"
    /\ fired = <<"on_half_open", "on_open">>
    /\ ret.tag = "Execution"
    /\ machine.state = "Open" /\ machine.opened_at = now

(* the transitions an API call other than reset made, read off the machine before
   and after it: an Open breaker that is Open again with a later opened_at went
   through HalfOpen, one that is Closed went through HalfOpen too *)
TransitionsMade(from, to) ==
    CASE from.state = "Open" /\ to.state = "HalfOpen" -> <<"Open->HalfOpen">>
      [] from.state = "Open" /\ to.state = "Closed" ->
            <<"Open->HalfOpen", "HalfOpen->Closed">>
      [] from.state = "Open" /\ to.state = "Open" /\ to.opened_at # from.opened_at ->
            <<"Open->HalfOpen", "HalfOpen->Open">>
      [] from.state = "HalfOpen" /\ to.state = "Closed" -> <<"HalfOpen->Closed">>
      [] from.state = "HalfOpen" /\ to.state = "Open" -> <<"HalfOpen->Open">>
      [] from.state = "Closed" /\ to.state = "Open" -> <<"Closed->Open">>
      [] OTHER -> <<>>

(* the hooks the API call in progress had invoked before a step *)
FiredBefore == IF frame.pc = "idle" THEN <<>> ELSE frame.p.fired

HookOf(transition) ==
    CASE transition = "Open->HalfOpen" -> "on_half_open"
      [] transition = "HalfOpen->Closed" -> "on_close"
      [] OTHER -> "on_open"

(* C23: over any sequence of API calls on_open is invoked exactly once per
   transition into Open, on_half_open once per Open->HalfOpen and on_close once per
   HalfOpen->Closed, during the API call that makes the transition and in the
   order of the transitions.  Each hook is invoked after the state has changed:
   on the step that invokes it the call's machine is in the state the hook
   announces when the step ends, on_half_open and on_close following their
   transition within the step and on_open being invoked by the step after Trip
   has fired, on a machine that is already Open and is stamped before the hook.
   A call that makes no transition (a failed guard, a refusal by the bulkhead,
   the fast-fail or the fallback of an Open breaker) invokes no hook, and neither
   does reset, which replaces the machine instead of moving it, nor a step of the
   code around the breaker that takes or returns a permit of its bulkhead. *)
C23_HooksMatchTransitions ==
    [][IF last_op'.op = "bulkhead"
       THEN machine' = machine /\ fired' = fired /\ frame' = frame
       ELSE
       /\ IF last_op'.op = "reset"
          THEN fired' = <<>>
          ELSE LET made == TransitionsMade(machine, machine')
               IN  fired' = [i \in DOMAIN made |-> HookOf(made[i])]
       /\ Len(FiredAfter) <= Len(FiredBefore) + 1
       /\ Len(FiredAfter) = Len(FiredBefore) + 1
            => LET hook == FiredAfter[Len(FiredAfter)]
               IN  /\ SubSeq(FiredAfter, 1, Len(FiredBefore)) = FiredBefore
                   /\ MineAfter.state = Target(hook)
                   /\ hook = "on_half_open"
                        => Mine.state = "Open" /\ MineAfter = HalfOpen(0)
                   /\ hook = "on_close"
                        => Mine.state = "HalfOpen" /\ MineAfter = Closed
                   /\ hook = "on_open"
                        => /\ frame.pc = "marking" /\ Mine = Open(0)
                           /\ MineAfter = Open(now)
       /\ Opens => FiredAfter = FiredBefore /\ MineAfter = Open(0)
       /\ (last_op'.op = "call" /\ ret'.tag \in {"BulkheadFull", "Open"})
            => fired' = <<>> /\ machine' = machine
       /\ (last_op'.op = "call" /\ "fallback" \in invoked')
            => fired' = <<>> /\ machine' = machine
       /\ (last_op'.op = "check_and_trip" /\ ret' = Ret("False", 0))
            => fired' = <<>> /\ machine' = machine]_vars

(* a failing call on an Open breaker with a bulkhead took a permit, moved the
   breaker to HalfOpen and back to Open, and invoked the two hooks in that order *)
C23_Witness ==
    /\ last_op.op = "call"
    /\ fired = <<"on_half_open", "on_open">>
    /\ machine.state = "Open"
    /\ cfg.max_concurrency = 1

(* C24: after every record on the memory store each circuit's log holds at most
   max_events events, for every sequence of records and every max_events, 0
   included. *)
C24_LogWithinCap ==
    \A n \in Names : Len(events[n]) <= cfg.max_events

(* a record filled the log of a store to its cap of LargeMaxEvents: the next
   record overflows it *)
C24_Witness ==
    /\ last_op.op = "record_failure"
    /\ cfg.max_events = LargeMaxEvents
    /\ Len(Log) = LargeMaxEvents
    /\ Log[1].timestamp < Log[Len(Log)].timestamp

(* C25: failure_count(name, W) and success_count(name, W) of the memory store
   return exactly the number of events of that kind that name's log holds with a
   timestamp >= now - W: older events are not counted, and a name with no events
   counts 0. *)
C25_WindowedCounts ==
    [][(last_op'.op \in {"failure_count", "success_count"} /\ cfg.storage = "memory")
         => LET log == events[last_op'.name]
                kind == IF last_op'.op = "failure_count" THEN "Failure" ELSE "Success"
                held == {i \in DOMAIN log : log[i].kind = kind}
                old == {i \in held : log[i].timestamp < now - last_op'.window}
            IN  /\ ret'.value = Cardinality(held) - Cardinality(old)
                /\ log = <<>> => ret'.value = 0]_vars

(* failure_count over a window of one tick counted the later of two failures and
   not the earlier, which is older than the window *)
C25_Witness ==
    /\ last_op.op = "failure_count" /\ last_op.name = CircuitName
    /\ last_op.window = 1
    /\ ret = Ret("Count", 1)
    /\ Kinds(Log) = <<"Failure", "Failure">>
    /\ Log[1].timestamp < now - 1
    /\ Log[2].timestamp >= now - 1

(* C26: the null store drops every write and reports zero counts and an empty
   event log after any sequence of operations, and a breaker built on it with a
   positive failure_threshold and no rate threshold stays Closed under any
   sequence of failing calls. *)
C26_NullStoreStaysClosed ==
    /\ [](cfg.storage = "null" => machine = Closed)
    /\ [](cfg.storage = "null" => \A n \in Names : events[n] = <<>>)
    /\ [][(cfg.storage = "null"
            /\ last_op'.op \in {"failure_count", "success_count", "event_log"})
             => ret'.value = 0]_vars

(* a failing call on a breaker with failure_threshold 1 built on the null store
   returned the operation's error and left the breaker Closed *)
C26_Witness ==
    /\ cfg.storage = "null" /\ cfg.failure_threshold = 1
    /\ last_op.op = "call" /\ last_op.f = "err"
    /\ ret.tag = "Execution"
    /\ machine = Closed

(* C27: clear(name) removes every event of that circuit and leaves the logs of
   the other names as they were, and clear_all empties every log; of two breakers
   with different names on one store, no step of a call, of the manual
   accounting or of a reset of one changes the log (hence the counts) of the
   other: the log of another name changes only by a record or a reset of the
   breaker of that name or by clear_all; and a record or a reset of the second
   breaker changes neither the log of the first nor its state, nor what a call in
   progress on the first has made of it. *)
C27_StoreIsolation ==
    [][/\ last_op'.op = "clear"
            => /\ LogAfter = <<>>
               /\ \A n \in Names \ {CircuitName} : events'[n] = events[n]
       /\ last_op'.op = "clear_all" => \A n \in Names : events'[n] = <<>>
       /\ last_op'.op \notin {"record_other", "reset_other", "clear_all"}
            => \A n \in Names \ {CircuitName} : events'[n] = events[n]
       /\ last_op'.op = "record_other"
            => /\ LogAfter = Log /\ machine' = machine /\ frame' = frame
               /\ events'["other"] # events["other"]
       /\ last_op'.op = "reset_other"
            => /\ LogAfter = Log /\ machine' = machine /\ frame' = frame
               /\ events'["other"] = <<>>]_vars

(* clear(name) emptied the log of an Open breaker and the event of the other
   circuit is still in the store *)
C27_Witness ==
    /\ last_op.op = "clear"
    /\ machine.state = "Open"
    /\ Log = <<>>
    /\ events["other"] # <<>>

(* C28: when a record makes the log exceed max_events, exactly
   max(1, max_events / 10) events are removed and they are the oldest; the event
   just recorded is never dropped: after every record the log is what it was plus
   the new event, less that many events at its front, and its last element is the
   new event, for every max_events with_max_events accepts. *)
C28_TrimKeepsNewest ==
    [][(last_op'.op = "record_failure" /\ cfg.storage = "memory")
         => LET overflow == Len(Log) + 1 > cfg.max_events
                removed == IF overflow THEN Max(cfg.max_events \div 10, 1) ELSE 0
                kept == Len(Log) + 1 - removed
            IN  /\ Len(LogAfter) = kept
                /\ \A i \in 1..(kept - 1) : LogAfter[i] = Log[i + removed]
                /\ LogAfter # <<>>
                /\ LogAfter[Len(LogAfter)].kind = "Failure"
                /\ LogAfter[Len(LogAfter)].timestamp = now']_vars

(* C29: within one circuit's log the timestamps are non-decreasing in log order
   after any sequence of records and cleanups, also when several threads record
   to the same circuit at once. *)
C29_TimestampsOrdered ==
    \A n \in Names : \A i, j \in DOMAIN events[n] :
        i < j => events[n][i].timestamp <= events[n][j].timestamp

(* the log holds two events of different ticks while a thread that called
   record_event before the later of them was stamped still waits for the lock *)
C29_Witness ==
    /\ Len(Log) = MaxEvents
    /\ Log[1].timestamp < Log[Len(Log)].timestamp
    /\ \E th \in Threads :
          /\ threads[th].pc = "write_wait"
          /\ threads[th].current < Log[Len(Log)].timestamp

(* C30: with success_threshold >= 1, between API calls a HalfOpen breaker has
   consecutive_successes below success_threshold, and no call has returned
   HalfOpenLimitReached. *)
C30_HalfOpenBelowThreshold ==
    cfg.success_threshold >= 1
        => /\ (machine.state = "HalfOpen"
                  => machine.consecutive_successes < cfg.success_threshold)
           /\ ret.tag # "HalfOpenLimitReached"

(* a successful call left a HalfOpen breaker one success short of closing *)
C30_Witness ==
    /\ cfg.success_threshold = SuccessThreshold
    /\ machine = HalfOpen(SuccessThreshold - 1)
    /\ last_op.op = "call" /\ last_op.f = "ok"
    /\ ret.tag = "Ok"

(* a store read by a thread has just returned *)
ReadReturned == last_op'.op \in {"failure_count", "success_count", "event_log"}

(* C31: a store read (failure_count, success_count, event_log) running next to
   writers sees the circuit's log as it is between two complete record / clear
   operations: no push is waiting for its cleanup, the log is no longer than
   max_events, and what the read returns is computed from that log. *)
C31_ReadsSeeCompleteWrites ==
    [][ReadReturned
        => /\ ~write_locked(threads)
           /\ Len(Log) <= cfg.max_events
           /\ ret'.value <= cfg.max_events
           /\ ret'.value =
                CASE last_op'.op = "failure_count" ->
                       count_events(Log, "Failure", last_op'.window, now)
                  [] last_op'.op = "success_count" ->
                       count_events(Log, "Success", last_op'.window, now)
                  [] OTHER -> Len(event_log(cfg, events, CircuitName, last_op'.window))]_vars

(* event_log returned a full log while another thread waited to record *)
C31_Witness ==
    /\ last_op.op = "event_log"
    /\ ret = Ret("Log", MaxEvents)
    /\ cfg.max_events = MaxEvents
    /\ \E th \in Threads : threads[th].pc = "write_wait"

(* C32: one evaluation of should_open uses a failure count F and a success
   count S of the same snapshot of the circuit's log: when it reads S to form
   T = F + S, the F it holds is the failure count of the log S is read from, and
   T is the number of in-window events of that log, also while other threads
   record to the same circuit name. *)
C32_CountsOfOneSnapshot ==
    [][(last_op'.op = "should_open" /\ threads[Holder].pc = "evaluating")
        => LET F == threads[Holder].current
               S == success_count(cfg, events, CircuitName, cfg.failure_window, now)
           IN  /\ F = failure_count(cfg, events, CircuitName, cfg.failure_window, now)
               /\ F + S = Cardinality({i \in DOMAIN Log :
                                         Log[i].timestamp >= now - cfg.failure_window})]_vars

(* a step that leaves every thread but the holder where it is *)
OthersRest == \A o \in Threads \ {Holder} : threads'[o] = threads[o]

(* a turn of a thread's loop whose compare-and-swap failed on a counter that is
   not the one it had read *)
CasFailed(th) ==
    /\ threads[th].pc = "loop" /\ threads'[th].pc = "loop"
    /\ threads'[th].current # threads[th].current

(* a thread inside try_acquire can always take its next step, and one outside
   can always enter it: no step waits for another thread *)
NeverBlocked ==
    \A th \in Threads :
        /\ threads[th].pc = "loop" => ENABLED TryAcquireLoop(th)
        /\ threads[th].pc = "idle" => ENABLED TryAcquireLoad(th)

(* a try_acquire returns once the other threads take no more steps *)
ReturnsOnceOthersRest ==
    <>[][OthersRest]_vars
        => (threads[Holder].pc = "loop" ~> threads[Holder].pc = "idle")

(* C33 as stated: try_acquire never blocks; whenever its compare-and-swap fails,
   another thread's acquire has succeeded since it read the counter; and a
   try_acquire returns once the other threads take no more steps. *)
C33_FailedCasMeansOtherAcquired ==
    /\ []NeverBlocked
    /\ [][\A th \in Threads : CasFailed(th) => overtaken[th]]_vars
    /\ ReturnsOnceOthersRest

(* C33, amended: try_acquire never blocks; whenever its compare-and-swap fails
   on a changed counter, another thread's acquire or release has changed it
   since the read; and a try_acquire returns once the other threads take no more
   steps. *)
C33_TryAcquireReturns ==
    /\ []NeverBlocked
    /\ [][\A th \in Threads :
            CasFailed(th) => \/ overtaken[th]
                             \/ acquired < threads[th].current]_vars
    /\ ReturnsOnceOthersRest

(* the holder is inside try_acquire with a value of the counter that a release
   of another thread has lowered since, no acquire of another thread having
   succeeded, and the other threads are outside *)
C33_Witness ==
    /\ threads[Holder].pc = "loop"
    /\ acquired < threads[Holder].current
    /\ ~overtaken[Holder]
    /\ ~at_capacity(threads[Holder].current, cfg.max_concurrency)
    /\ \A o \in Threads \ {Holder} : threads[o].pc = "idle"

(* the operations that are neither call nor reset *)
ManualOrQuery ==
    last_op'.op \in {"record_success", "record_failure", "check_and_trip",
                     "record_success_and_maybe_close", "record_failure_and_maybe_trip",
                     "ruby_record_failure", "is_open", "is_closed", "state_name",
                     "ruby_state_name"}

(* C34: the Open -> HalfOpen transition happens only inside call: the queries and
   the manual operations leave an Open breaker exactly as it is, whatever time has
   passed, state_name answering "Open" and the state_name of RubyCircuit "open"
   all the while, on_half_open fires in no operation but call, and an operation
   other than call takes a breaker out of Open only if it is reset. *)
C34_OnlyCallLeavesOpen ==
    [][/\ (ManualOrQuery /\ machine.state = "Open")
            => machine' = machine /\ fired' = <<>>
       /\ (last_op'.op = "state_name" /\ machine.state = "Open")
            => ret' = Ret("Name", "Open")
       /\ (last_op'.op = "ruby_state_name" /\ machine.state = "Open")
            => ret' = Ret("Name", "open")
       /\ "on_half_open" \in Range(fired') => last_op'.op = "call"
       /\ (machine.state = "Open" /\ machine'.state # "Open")
            => last_op'.op \in {"call", "reset"}]_vars

(* record_success_and_maybe_close has just run on a breaker that has been Open
   for longer than its half-open timeout, and it is still Open *)
C34_Witness ==
    /\ last_op.op = "record_success_and_maybe_close"
    /\ machine.state = "Open"
    /\ now - machine.opened_at > cfg.half_open_timeout

(* C35: a successful operation never opens the circuit: a successful call, a
   record_success or a record_success_and_maybe_close fires no on_open and leaves
   a breaker that is not Open not Open, and leaves a Closed breaker Closed also
   when the success makes the rate rule hold (T reaches minimum_calls with
   F/T >= failure_rate); the next check_and_trip or counted failure on a Closed
   breaker that finds the rule to hold of the counts it reads opens it. *)
C35_SuccessNeverOpens ==
    [][/\ (CountedSuccess \/ last_op'.op = "record_success")
            => /\ "on_open" \notin Range(fired')
               /\ Admitted.state # "Open" => machine'.state # "Open"
               /\ machine = Closed => machine' = Closed
       /\ (Decides /\ Mine = Closed /\ should_open(cfg, GuardRead, now))
            => Opens
       /\ Takes("marking") => MineAfter.state = "Open"]_vars

(* a successful call has completed the minimum number of calls of a Closed
   breaker: the rate rule holds now, it did not before, the breaker is Closed *)
C35_Witness ==
    /\ last_op.op = "call" /\ last_op.f = "ok"
    /\ machine = Closed
    /\ should_open(cfg, events, now)
    /\ ~should_open(cfg, [events EXCEPT ![CircuitName] = SubSeq(Log, 1, Len(Log) - 1)], now)
    /\ Within(Log, "Failure", now, cfg.failure_window)
         + Within(Log, "Success", now, cfg.failure_window) = cfg.minimum_calls

(* C36: a call that takes the breaker from Open to HalfOpen or from HalfOpen to
   Closed leaves the event log as it was apart from the one event it appends, a
   success when its operation succeeds: failures recorded before the Open episode
   stay in the log and count while they are inside failure_window, so a counted
   failure on the Closed breaker opens it again whenever the failures it counts
   in the window number failure_threshold or more. *)
C36_TransitionsKeepLog ==
    [][/\ ("on_half_open" \in Range(fired') \/ "on_close" \in Range(fired'))
            => /\ Len(LogAfter) >= Len(Log)
               /\ Len(LogAfter) <= Len(Log) + 1
               /\ SubSeq(LogAfter, 1, Len(Log)) = Log
               /\ SucceedingCall
                    => /\ Len(LogAfter) = Len(Log) + 1
                       /\ LogAfter[Len(LogAfter)].kind = "Success"
       /\ (Decides /\ OpOf \in {"call", "record_failure_and_maybe_trip"}
             /\ Mine = Closed
             /\ Within(GuardLog, "Failure", now, cfg.failure_window)
                  >= cfg.failure_threshold)
            => Opens
       /\ (CountedFailure /\ machine = Closed /\ frame.pc = "marking")
            => machine'.state = "Open" /\ fired' = <<"on_open">>]_vars

(* the breaker opened, was closed by a successful probe, and the first failure
   after that has opened it again, the earlier failures still being in the log *)
C36_Witness ==
    /\ cfg.success_threshold = 1
    /\ Len(Log) = cfg.failure_threshold + 2
    /\ \A i \in 1..cfg.failure_threshold : Log[i].kind = "Failure"
    /\ Log[cfg.failure_threshold + 1].kind = "Success"
    /\ Log[cfg.failure_threshold + 2].kind = "Failure"
    /\ machine.state = "Open"
    /\ last_op.op = "call" /\ last_op.f = "err"
    /\ fired = <<"on_open">>

(* C37: on a breaker that is already Open, check_and_trip returns false and
   changes nothing, and record_failure_and_maybe_trip only records the failure:
   the state stays Open, opened_at keeps its value and on_open does not fire
   again. *)
C37_OpenNotRestarted ==
    [][/\ (last_op'.op = "check_and_trip" /\ machine.state = "Open")
            => /\ ret' = Ret("False", 0)
               /\ machine' = machine /\ events' = events /\ fired' = <<>>
       /\ (last_op'.op = "record_failure_and_maybe_trip" /\ machine.state = "Open")
            => /\ machine' = machine /\ fired' = <<>>
               /\ LogAfter # <<>>
               /\ LogAfter[Len(LogAfter)].kind = "Failure"
               /\ LogAfter[Len(LogAfter)].timestamp = now
               /\ \A n \in Names \ {CircuitName} : events'[n] = events[n]]_vars

(* record_failure_and_maybe_trip has just recorded a failure on a breaker that
   opened at an earlier tick: the threshold is reached and the breaker is Open
   with the opened_at it had *)
C37_Witness ==
    /\ last_op.op = "record_failure_and_maybe_trip"
    /\ machine.state = "Open"
    /\ machine.opened_at < now
    /\ should_open(cfg, events, now)
    /\ fired = <<>>

(* C38: for every circuit and every window, failure_count + success_count is at
   most max_events after any sequence of records, so a breaker with the absolute
   rule alone whose failure_threshold exceeds the store's max_events never leaves
   Closed, however many failures in a row it counts. *)
C38_CountsWithinCap ==
    /\ \A n \in Names, w \in 0..MaxTime :
          failure_count(cfg, events, n, w, now) + success_count(cfg, events, n, w, now)
            <= cfg.max_events
    /\ (cfg.failure_rate = NoRate /\ cfg.failure_threshold > cfg.max_events)
          => machine = Closed

(* a failing call on a store whose cap is below the failure threshold has left
   the log full, of failures of this tick alone, and the breaker is Closed *)
C38_Witness ==
    /\ cfg.failure_threshold > cfg.max_events
    /\ last_op.op = "call" /\ last_op.f = "err"
    /\ Len(Log) = cfg.max_events
    /\ \A i \in DOMAIN Log : Log[i].kind = "Failure" /\ Log[i].timestamp = now
    /\ machine = Closed

(* C39: call invokes the fallback only on its Open branch: a call that invokes
   it found the breaker Open, leaves it Open and does not run the operation; a
   call with a fallback whose operation fails, in Closed or HalfOpen, returns the
   operation's error as Execution without invoking the fallback; and a call that
   returns BulkheadFull or HalfOpenLimitReached has not invoked it. *)
C39_FallbackOnlyWhenOpen ==
    [][last_op'.op = "call"
        => /\ "fallback" \in invoked'
                => /\ machine.state = "Open" /\ machine' = machine
                   /\ "operation" \notin invoked'
                   /\ ret'.tag \in {"Ok", "Execution"}
           /\ (last_op'.fallback # "none" /\ last_op'.f = "err")
                => /\ Admitted.state \in {"Closed", "HalfOpen"}
                   /\ "fallback" \notin invoked'
                   /\ ret' = Ret("Execution", 0)
           /\ (last_op'.fallback # "none"
                 /\ (ret'.tag \in {"BulkheadFull", "HalfOpenLimitReached"}
                      \/ (cfg.max_concurrency # NoBulkhead /\ frame.pc = "idle"
                            /\ acquired >= cfg.max_concurrency)))
                => /\ invoked' = {}
                   /\ ret'.tag \in {"BulkheadFull", "HalfOpenLimitReached"}]_vars

(* a call with a fallback found the breaker Open with its timeout run out, its
   operation failed in HalfOpen, and the call returned the operation's error
   without invoking the fallback *)
C39_Witness ==
    /\ last_op.op = "call" /\ last_op.fallback = "ok" /\ last_op.f = "err"
    /\ "on_half_open" \in Range(fired)
    /\ invoked = {"operation"}
    /\ ret = Ret("Execution", 0)

====
